---- MODULE Spec2Model ----
(***************************************************************************)
(* Kapila: lexer (src/src/lexer/lexer.py), script classifier               *)
(* (src/src/unicode/kannada.py), virtual machine (src/src/vm/vm.py,        *)
(* src/src/vm/builtins.py continued in src/I/O), vocabulary                *)
(* (src/src/vocabulary.py) and the drivers of src/src/repl.py.             *)
(*                                                                         *)
(* A Python str is a sequence of code points; a code point is written as   *)
(* a TLA+ string: an ASCII character as itself ("a", "+"), the others by   *)
(* name ("DQUOTE", "BSLASH", "SP", "NL", "NUL") or by number ("U0CA8").    *)
(***************************************************************************)
EXTENDS Integers, Sequences, FiniteSets, TLC

VARIABLES
    vm,         \* the VM object and the outcome of its last call
    pre,        \* the VM before the last step
    pc,         \* where the driver is
    console,    \* what the last step's handler printed first
    input,      \* the last step's command and text
    nlines,     \* the number of lines executed
    status,     \* the exit status of the process, -1 while it runs
    probe,      \* the word looked up last and the position it stood in
    lexer,      \* the Lexer object: source, pos, line, column, start, ...
    tokens,     \* the list scan_all is building
    lexpc,      \* "scan": in scan_all's loop; "done": returned; "raised": a host exception left it
    parser,     \* the Parser object and the outcome of its last call
    psource,    \* what parse() is given
    parsepc,    \* "start": before parse(); "parsed": returned; "raised"; "hung": it never returns
    libcall     \* a call of a library function: its name, its arguments and what it returned

lexvars == <<lexer, tokens, lexpc>>

vmvars == <<vm, pre, pc, console, input, nlines, status, probe>>

parsevars == <<parser, psource, parsepc>>

callvars == <<libcall>>

vars == <<vm, pre, pc, console, input, nlines, status, probe, lexer, tokens, lexpc,
          parser, psource, parsepc, libcall>>

(***************************************************************************)
(* Values.  Every Python value the interpreter handles is a record         *)
(* [t |-> tag, v |-> payload].                                             *)
(***************************************************************************)
NoneV == [t |-> "none", v |-> 0]
IntV(i) == [t |-> "int", v |-> i]
BoolV(b) == [t |-> "bool", v |-> b]
StrV(s) == [t |-> "str", v |-> s]
ListV(l) == [t |-> "list", v |-> l]

RECURSIVE GCD(_, _)
GCD(a, b) == IF b = 0 THEN a ELSE GCD(b, a % b)

Abs(i) == IF i < 0 THEN -i ELSE i

\* A float is modelled by the exact fraction n/d in lowest terms, d > 0.
FloatV(n, d) ==
    LET g == GCD(Abs(n), Abs(d))
        sn == IF d < 0 THEN -n ELSE n
    IN  [t |-> "float", v |-> <<sn \div g, Abs(d) \div g>>]

(***************************************************************************)
(* Script classifier, src/src/unicode/kannada.py, and the str methods the  *)
(* lexer uses, over the code points of the model.                          *)
(***************************************************************************)
AsciiDigits == {"0", "1", "2", "3", "4", "5", "6", "7", "8", "9"}

AsciiLetters ==
    {"a", "b", "c", "d", "e", "f", "g", "h", "i", "j", "k", "l", "m",
     "n", "o", "p", "q", "r", "s", "t", "u", "v", "w", "x", "y", "z"}

\* U+0CE6 .. U+0CEF
KANNADA_DIGITS ==
    {"U0CE6", "U0CE7", "U0CE8", "U0CE9", "U0CEA", "U0CEB", "U0CEC", "U0CED", "U0CEE", "U0CEF"}

DIGIT_VALUES ==
    [ch \in KANNADA_DIGITS |->
        CASE ch = "U0CE6" -> 0 [] ch = "U0CE7" -> 1 [] ch = "U0CE8" -> 2
          [] ch = "U0CE9" -> 3 [] ch = "U0CEA" -> 4 [] ch = "U0CEB" -> 5
          [] ch = "U0CEC" -> 6 [] ch = "U0CED" -> 7 [] ch = "U0CEE" -> 8
          [] ch = "U0CEF" -> 9]

\* independent vowels: offsets 0x05..0x0C, 0x0E..0x10, 0x12..0x14
VOWELS_INDEPENDENT ==
    {"U0C85", "U0C86", "U0C87", "U0C88", "U0C89", "U0C8A", "U0C8B", "U0C8C",
     "U0C8E", "U0C8F", "U0C90", "U0C92", "U0C93", "U0C94"}

\* consonants: offsets 0x15..0x39
CONSONANTS ==
    {"U0C95", "U0C96", "U0C97", "U0C98", "U0C99", "U0C9A", "U0C9B", "U0C9C",
     "U0C9D", "U0C9E", "U0C9F", "U0CA0", "U0CA1", "U0CA2", "U0CA3", "U0CA4",
     "U0CA5", "U0CA6", "U0CA7", "U0CA8", "U0CA9", "U0CAA", "U0CAB", "U0CAC",
     "U0CAD", "U0CAE", "U0CAF", "U0CB0", "U0CB1", "U0CB2", "U0CB3", "U0CB4",
     "U0CB5", "U0CB6", "U0CB7", "U0CB8", "U0CB9"}

\* matras: offsets 0x3E..0x44, 0x46..0x48, 0x4A..0x4C
MATRAS ==
    {"U0CBE", "U0CBF", "U0CC0", "U0CC1", "U0CC2", "U0CC3", "U0CC4",
     "U0CC6", "U0CC7", "U0CC8", "U0CCA", "U0CCB", "U0CCC"}

HALANT == "U0CCD"
ANUSVARA == "U0C82"
VISARGA == "U0C83"

LETTERS == VOWELS_INDEPENDENT \cup CONSONANTS

is_kannada_digit(ch) == ch \in KANNADA_DIGITS

\* None when ch is no Kannada digit
kannada_digit_value(ch) == IF ch \in KANNADA_DIGITS THEN IntV(DIGIT_VALUES[ch]) ELSE NoneV

\* U+00B2 SUPERSCRIPT TWO has Numeric_Type=Digit and U+0663 ARABIC-INDIC DIGIT
\* THREE is a decimal digit, so str.isdigit() is true of both.
OtherDigits == {"U00B2", "U0663"}

isdigit(ch) == ch \in AsciiDigits \cup KANNADA_DIGITS \cup OtherDigits

\* U+0915 DEVANAGARI LETTER KA stands for the letters of other scripts.
OtherLetters == {"U0915"}

isalpha(ch) == ch \in AsciiLetters \cup LETTERS \cup OtherLetters

isalnum(ch) == isalpha(ch) \/ isdigit(ch)

is_valid_identifier_start(ch) == ch \in LETTERS

is_valid_identifier_char(ch) ==
    \/ ch \in LETTERS
    \/ ch \in KANNADA_DIGITS
    \/ isdigit(ch)
    \/ ch \in MATRAS
    \/ ch = HALANT
    \/ ch \in {ANUSVARA, VISARGA}
    \/ ch = "_"

(***************************************************************************)
(* Tokens, src/src/lexer/tokens.py.  The token type is the name of the     *)
(* TokenType member; literal is NoneV when the token carries none.         *)
(***************************************************************************)
Token(type, value, line, column, literal) ==
    [type |-> type, value |-> value, line |-> line, column |-> column, literal |-> literal]

(***************************************************************************)
(* Lexer, src/src/lexer/lexer.py.  An operator that returns a value and    *)
(* moves the lexer returns a record holding both.                          *)
(***************************************************************************)
Lexer(source) ==
    [source |-> source, pos |-> 0, line |-> 1, column |-> 1,
     start |-> 0, start_line |-> 1, start_column |-> 1]

Lexer_at_end(lx) == lx.pos >= Len(lx.source)

Lexer_peek(lx) == IF Lexer_at_end(lx) THEN "NUL" ELSE lx.source[lx.pos + 1]

Lexer_peek_next(lx) ==
    IF lx.pos + 1 >= Len(lx.source) THEN "NUL" ELSE lx.source[lx.pos + 2]

\* the lexer after _advance(); the character it returns is source[pos] of before
Lexer_advance(lx) ==
    LET ch == lx.source[lx.pos + 1]
    IN  [lx EXCEPT !.pos = @ + 1,
                   !.line = IF ch = "NL" THEN @ + 1 ELSE @,
                   !.column = IF ch = "NL" THEN 1 ELSE @ + 1]

Lexer_mark_start(lx) ==
    [lx EXCEPT !.start = lx.pos, !.start_line = lx.line, !.start_column = lx.column]

Lexer_skip_line_comment(lx) ==
    LET RECURSIVE loop(_)
        loop(l) == IF ~Lexer_at_end(l) /\ Lexer_peek(l) # "NL" THEN loop(Lexer_advance(l)) ELSE l
    IN  loop(Lexer_advance(Lexer_advance(lx)))

Lexer_skip_block_comment(lx) ==
    LET RECURSIVE loop(_)
        loop(l) ==
            IF Lexer_at_end(l) THEN l
            ELSE IF Lexer_peek(l) = "*" /\ Lexer_peek_next(l) = "/"
                 THEN Lexer_advance(Lexer_advance(l))
                 ELSE loop(Lexer_advance(l))
    IN  loop(Lexer_advance(Lexer_advance(lx)))

RECURSIVE Lexer_skip_whitespace_and_comments(_)
Lexer_skip_whitespace_and_comments(lx) ==
    IF Lexer_at_end(lx) THEN lx
    ELSE LET ch == Lexer_peek(lx)
         IN  IF ch \in {"SP", "TAB", "CR", "NL"}
             THEN Lexer_skip_whitespace_and_comments(Lexer_advance(lx))
             ELSE IF ch = "/" /\ Lexer_peek_next(lx) = "/"
             THEN Lexer_skip_whitespace_and_comments(Lexer_skip_line_comment(lx))
             ELSE IF ch = "/" /\ Lexer_peek_next(lx) = "*"
             THEN Lexer_skip_whitespace_and_comments(Lexer_skip_block_comment(lx))
             ELSE lx

Lexer_is_word_start(ch) ==
    \/ ch = "_"
    \/ isalpha(ch)
    \/ is_valid_identifier_start(ch)

Lexer_is_word_char(ch) ==
    \/ ch = "_" \/ ch = "-"
    \/ isalnum(ch)
    \/ is_valid_identifier_char(ch)

Lexer_make_token(lx, type, value, literal) ==
    Token(type, value, lx.start_line, lx.start_column, literal)

Lexer_error_token(lx, message) ==
    Token("ERROR", message, lx.start_line, lx.start_column, NoneV)

Lexer_scan_word(lx, first_char) ==
    LET RECURSIVE loop(_, _)
        loop(l, chars) ==
            IF ~Lexer_at_end(l) /\ Lexer_is_word_char(Lexer_peek(l))
            THEN loop(Lexer_advance(l), Append(chars, Lexer_peek(l)))
            ELSE [lx |-> l, chars |-> chars]
        r == loop(lx, <<first_char>>)
    IN  [lx |-> r.lx, exc |-> "none",
         tok |-> Lexer_make_token(r.lx, "WORD", r.chars, NoneV)]

\* the value int() and float() give a decimal digit; U+00B2 is a digit to
\* str.isdigit() but no decimal digit
IsDecimal(ch) == ch \in AsciiDigits \cup KANNADA_DIGITS \cup {"U0663"}

DecimalValue(ch) ==
    CASE ch = "0" -> 0 [] ch = "1" -> 1 [] ch = "2" -> 2 [] ch = "3" -> 3
      [] ch = "4" -> 4 [] ch = "5" -> 5 [] ch = "6" -> 6 [] ch = "7" -> 7
      [] ch = "8" -> 8 [] ch = "9" -> 9
      [] ch \in KANNADA_DIGITS -> DIGIT_VALUES[ch]
      [] ch = "U0663" -> 3

RECURSIVE DigitsValue(_)
DigitsValue(text) ==
    IF text = <<>> THEN 0
    ELSE 10 * DigitsValue(SubSeq(text, 1, Len(text) - 1)) + DecimalValue(text[Len(text)])

RECURSIVE Pow10(_)
Pow10(k) == IF k = 0 THEN 1 ELSE 10 * Pow10(k - 1)

\* [exc, val]: int(num_str) or float(num_str) of the text with its Kannada
\* digits replaced; ValueError when a character is no decimal digit
Lexer_parse_number(text, is_float) ==
    LET digits == SelectSeq(text, LAMBDA ch : ch # ".")
        dot == CHOOSE i \in 1..Len(text) : text[i] = "."
    IN  IF \E i \in 1..Len(digits) : ~IsDecimal(digits[i])
        THEN [exc |-> "ValueError", val |-> NoneV]
        ELSE IF is_float
        THEN [exc |-> "none", val |-> FloatV(DigitsValue(digits), Pow10(Len(text) - dot))]
        ELSE [exc |-> "none", val |-> IntV(DigitsValue(digits))]

Lexer_scan_number(lx, first_char) ==
    LET RECURSIVE loop(_, _, _)
        loop(l, chars, has_dot) ==
            IF Lexer_at_end(l) THEN [lx |-> l, chars |-> chars, has_dot |-> has_dot]
            ELSE LET ch == Lexer_peek(l)
                     next_ch == Lexer_peek_next(l)
                 IN  IF isdigit(ch) \/ is_kannada_digit(ch)
                     THEN loop(Lexer_advance(l), Append(chars, ch), has_dot)
                     ELSE IF ch = "." /\ ~has_dot /\ (isdigit(next_ch) \/ is_kannada_digit(next_ch))
                     THEN loop(Lexer_advance(l), Append(chars, ch), TRUE)
                     ELSE [lx |-> l, chars |-> chars, has_dot |-> has_dot]
        r == loop(lx, <<first_char>>, FALSE)
        value == Lexer_parse_number(r.chars, r.has_dot)
    IN  [lx |-> r.lx, exc |-> value.exc,
         tok |-> Lexer_make_token(r.lx, "NUMBER", r.chars, value.val)]

escape_map(escape) ==
    CASE escape = "n" -> "NL"
      [] escape = "t" -> "TAB"
      [] escape = "r" -> "CR"
      [] escape = "BSLASH" -> "BSLASH"
      [] escape = "DQUOTE" -> "DQUOTE"
      [] escape = "0" -> "NUL"
      [] OTHER -> escape

\* bad: the backslash was the last character
Lexer_scan_string(lx) ==
    LET start_line == lx.line
        RECURSIVE loop(_, _)
        loop(l, chars) ==
            IF ~Lexer_at_end(l) /\ Lexer_peek(l) # "DQUOTE"
            THEN IF Lexer_peek(l) = "BSLASH"
                 THEN LET l1 == Lexer_advance(l)
                      IN  IF Lexer_at_end(l1)
                          THEN [lx |-> l1, chars |-> chars, bad |-> TRUE]
                          ELSE loop(Lexer_advance(l1), Append(chars, escape_map(Lexer_peek(l1))))
                 ELSE loop(Lexer_advance(l), Append(chars, Lexer_peek(l)))
            ELSE [lx |-> l, chars |-> chars, bad |-> FALSE]
        r == loop(lx, <<>>)
        l2 == Lexer_advance(r.lx)
    IN  IF r.bad
        THEN [lx |-> r.lx, exc |-> "none",
              tok |-> Lexer_error_token(r.lx, <<"Unterminated string">>)]
        ELSE IF Lexer_at_end(r.lx)
        THEN [lx |-> r.lx, exc |-> "none",
              tok |-> Lexer_error_token(r.lx,
                  <<"Unterminated string (started line ", ToString(start_line), ")">>)]
        ELSE [lx |-> l2, exc |-> "none",
              tok |-> Lexer_make_token(l2, "STRING",
                          SubSeq(l2.source, l2.start + 1, l2.pos), StrV(r.chars))]

simple_tokens(ch) ==
    CASE ch = "." -> "DOT"
      [] ch = ":" -> "COLON"
      [] ch = "[" -> "LBRACKET"
      [] ch = "]" -> "RBRACKET"
      [] ch = "{" -> "LBRACE"
      [] ch = "}" -> "RBRACE"
      [] ch = "|" -> "PIPE"
      [] ch = "'" -> "QUOTE"
      [] ch = "?" -> "QUESTION"
      [] ch = "+" -> "PLUS"
      [] ch = "-" -> "MINUS"
      [] ch = "*" -> "STAR"
      [] ch = "/" -> "SLASH"
      [] ch = "%" -> "PERCENT"
      [] ch = "=" -> "EQ"
      [] ch = "<" -> "LT"
      [] ch = ">" -> "GT"
      [] ch = "U2260" -> "NEQ"
      [] ch = "U2264" -> "LTE"
      [] ch = "U2265" -> "GTE"
      [] OTHER -> "none"

\* [lx, tok, exc]: the lexer after the call, the token returned, and the host
\* exception that left the call instead ("none" when it returned)
Lexer_next_token(lexer0) ==
    LET l0 == Lexer_skip_whitespace_and_comments(lexer0)
        l1 == Lexer_mark_start(l0)
        ch == Lexer_peek(l1)
        lx == Lexer_advance(l1)
        two(type, value) ==
            [lx |-> Lexer_advance(lx), exc |-> "none",
             tok |-> Lexer_make_token(lx, type, value, NoneV)]
    IN  IF Lexer_at_end(l0)
        THEN [lx |-> l0, exc |-> "none", tok |-> Lexer_make_token(l0, "EOF", <<>>, NoneV)]
        ELSE IF isdigit(ch) \/ is_kannada_digit(ch) THEN Lexer_scan_number(lx, ch)
        ELSE IF ch = "DQUOTE" THEN Lexer_scan_string(lx)
        ELSE IF Lexer_is_word_start(ch) THEN Lexer_scan_word(lx, ch)
        ELSE IF ch = ":" /\ Lexer_peek(lx) = "=" THEN two("ASSIGN", <<":", "=">>)
        ELSE IF ch = "!" /\ Lexer_peek(lx) = "=" THEN two("NEQ", <<"!", "=">>)
        ELSE IF ch = "<" /\ Lexer_peek(lx) = "=" THEN two("LTE", <<"<", "=">>)
        ELSE IF ch = ">" /\ Lexer_peek(lx) = "=" THEN two("GTE", <<">", "=">>)
        ELSE IF simple_tokens(ch) # "none"
        THEN [lx |-> lx, exc |-> "none",
              tok |-> Lexer_make_token(lx, simple_tokens(ch), <<ch>>, NoneV)]
        ELSE IF ch = "U0965"
        THEN [lx |-> lx, exc |-> "none", tok |-> Lexer_make_token(lx, "DEF_END", <<ch>>, NoneV)]
        ELSE [lx |-> lx, exc |-> "none",
              tok |-> Lexer_error_token(lx, <<"Unexpected character: ", ch>>)]

(***************************************************************************)
(* The host operations the interpreter applies to values: Python's + - *   *)
(* / % == < and friends, truth testing, len, int, indexing, iteration.     *)
(* Each returns [exc, val]: exc is "none" or the host exception raised.    *)
(* "OutOfModel" marks the few operations the model does not compute        *)
(* (ordering of strings and lists, identity of blocks, repr of composite   *)
(* values); the specifications below never reach them (NoOutOfModel).      *)
(***************************************************************************)
\* a Block; declared is not a field of the object: it records, for the
\* properties, the parameter names the block's source text declares
BlockV(tokens_, params, declared) ==
    [t |-> "block", v |-> [tokens |-> tokens_, params |-> params, declared |-> declared]]
MapV(d) == [t |-> "map", v |-> d]

Val(v) == [exc |-> "none", val |-> v]
Exc(kind) == [exc |-> kind, val |-> NoneV]

IsNum(v) == v.t \in {"int", "bool", "float"}

\* a number as the fraction <<n, d>>
Q(v) ==
    CASE v.t = "int" -> <<v.v, 1>>
      [] v.t = "bool" -> <<IF v.v THEN 1 ELSE 0, 1>>
      [] v.t = "float" -> v.v

\* the result of an arithmetic operator: float when an operand is a float
NumV(a, b, n, d) ==
    IF a.t = "float" \/ b.t = "float" THEN FloatV(n, d) ELSE IntV(n \div d)

FloorDiv(a, b) ==
    LET aa == IF b < 0 THEN -a ELSE a
        bb == Abs(b)
    IN  IF aa >= 0 THEN aa \div bb ELSE -((-aa + bb - 1) \div bb)

RECURSIVE Repeat(_, _)
Repeat(seq, n) == IF n <= 0 THEN <<>> ELSE seq \o Repeat(seq, n - 1)

Truthy(v) ==
    CASE v.t = "none" -> FALSE
      [] v.t = "bool" -> v.v
      [] v.t = "int" -> v.v # 0
      [] v.t = "float" -> v.v[1] # 0
      [] v.t = "str" -> v.v # <<>>
      [] v.t = "list" -> v.v # <<>>
      [] v.t = "map" -> DOMAIN v.v # {}
      [] v.t = "block" -> TRUE

PyAdd(a, b) ==
    IF IsNum(a) /\ IsNum(b)
    THEN Val(NumV(a, b, Q(a)[1] * Q(b)[2] + Q(b)[1] * Q(a)[2], Q(a)[2] * Q(b)[2]))
    ELSE IF a.t = "str" /\ b.t = "str" THEN Val(StrV(a.v \o b.v))
    ELSE IF a.t = "list" /\ b.t = "list" THEN Val(ListV(a.v \o b.v))
    ELSE Exc("TypeError")

PySub(a, b) ==
    IF IsNum(a) /\ IsNum(b)
    THEN Val(NumV(a, b, Q(a)[1] * Q(b)[2] - Q(b)[1] * Q(a)[2], Q(a)[2] * Q(b)[2]))
    ELSE Exc("TypeError")

PyMul(a, b) ==
    IF IsNum(a) /\ IsNum(b)
    THEN Val(NumV(a, b, Q(a)[1] * Q(b)[1], Q(a)[2] * Q(b)[2]))
    ELSE IF a.t \in {"str", "list"} /\ b.t \in {"int", "bool"}
    THEN Val([t |-> a.t, v |-> Repeat(a.v, Q(b)[1])])
    ELSE IF b.t \in {"str", "list"} /\ a.t \in {"int", "bool"}
    THEN Val([t |-> b.t, v |-> Repeat(b.v, Q(a)[1])])
    ELSE Exc("TypeError")

PyTrueDiv(a, b) ==
    IF IsNum(a) /\ IsNum(b)
    THEN IF Q(b)[1] = 0 THEN Exc("ZeroDivisionError")
         ELSE Val(FloatV(Q(a)[1] * Q(b)[2], Q(a)[2] * Q(b)[1]))
    ELSE Exc("TypeError")

\* str % x is string formatting; no str of the model holds a "%", so the
\* format takes no argument: a list or a map is accepted as a mapping
PyMod(a, b) ==
    IF IsNum(a) /\ IsNum(b)
    THEN IF Q(b)[1] = 0 THEN Exc("ZeroDivisionError")
         ELSE LET fl == FloorDiv(Q(a)[1] * Q(b)[2], Q(a)[2] * Q(b)[1])
              IN  Val(NumV(a, b, Q(a)[1] * Q(b)[2] - fl * Q(b)[1] * Q(a)[2],
                           Q(a)[2] * Q(b)[2]))
    ELSE IF a.t = "str"
    THEN IF b.t \in {"list", "map"} THEN Val(a) ELSE Exc("TypeError")
    ELSE Exc("TypeError")

PyNeg(a) ==
    IF IsNum(a) THEN Val(NumV(a, a, -Q(a)[1], Q(a)[2])) ELSE Exc("TypeError")

RECURSIVE HasBlock(_)
HasBlock(v) ==
    CASE v.t = "block" -> TRUE
      [] v.t = "list" -> \E i \in 1..Len(v.v) : HasBlock(v.v[i])
      [] v.t = "map" -> \E k \in DOMAIN v.v : HasBlock(v.v[k])
      [] OTHER -> FALSE

RECURSIVE Equal(_, _)
Equal(a, b) ==
    IF IsNum(a) /\ IsNum(b) THEN Q(a)[1] * Q(b)[2] = Q(b)[1] * Q(a)[2]
    ELSE IF a.t # b.t THEN FALSE
    ELSE CASE a.t = "none" -> TRUE
           [] a.t = "str" -> a.v = b.v
           [] a.t = "list" ->
                /\ Len(a.v) = Len(b.v)
                /\ \A i \in 1..Len(a.v) : Equal(a.v[i], b.v[i])
           [] a.t = "map" ->
                /\ DOMAIN a.v = DOMAIN b.v
                /\ \A k \in DOMAIN a.v : Equal(a.v[k], b.v[k])
           [] OTHER -> FALSE

\* a Block is equal only to itself: the model does not tell two Block objects apart
PyEq(a, b) ==
    IF HasBlock(a) /\ HasBlock(b) THEN Exc("OutOfModel") ELSE Val(BoolV(Equal(a, b)))

PyNe(a, b) ==
    IF HasBlock(a) /\ HasBlock(b) THEN Exc("OutOfModel") ELSE Val(BoolV(~Equal(a, b)))

\* the four orderings: rel is applied to the cross products of two numbers
PyOrder(a, b, rel(_, _)) ==
    IF IsNum(a) /\ IsNum(b)
    THEN Val(BoolV(rel(Q(a)[1] * Q(b)[2], Q(b)[1] * Q(a)[2])))
    ELSE IF a.t = b.t /\ a.t \in {"str", "list"} THEN Exc("OutOfModel")
    ELSE Exc("TypeError")

PyLt(a, b) == PyOrder(a, b, LAMBDA x, y : x < y)
PyGt(a, b) == PyOrder(a, b, LAMBDA x, y : x > y)
PyLe(a, b) == PyOrder(a, b, LAMBDA x, y : x <= y)
PyGe(a, b) == PyOrder(a, b, LAMBDA x, y : x >= y)

\* a or b, a and b, not a
PyOr(a, b) == IF Truthy(a) THEN a ELSE b
PyAnd(a, b) == IF Truthy(a) THEN b ELSE a
PyNot(a) == BoolV(~Truthy(a))

PyLen(a) ==
    IF a.t \in {"str", "list"} THEN Val(IntV(Len(a.v)))
    ELSE IF a.t = "map" THEN Val(IntV(Cardinality(DOMAIN a.v)))
    ELSE Exc("TypeError")

\* int(a)
PyInt(a) ==
    CASE a.t \in {"int", "bool"} -> Val(IntV(Q(a)[1]))
      [] a.t = "float" ->
            Val(IntV(IF a.v[1] >= 0 THEN a.v[1] \div a.v[2] ELSE -((-a.v[1]) \div a.v[2])))
      [] a.t = "str" ->
            IF a.v # <<>> /\ \A i \in 1..Len(a.v) : IsDecimal(a.v[i])
            THEN Val(IntV(DigitsValue(a.v)))
            ELSE IF \E i \in 1..Len(a.v) : a.v[i] \notin {"+", "-", "_", "SP", "NL", "TAB", "CR"}
                                           /\ ~IsDecimal(a.v[i])
            THEN Exc("ValueError")
            ELSE IF a.v = <<>> THEN Exc("ValueError")
            ELSE Exc("OutOfModel")
      [] OTHER -> Exc("TypeError")

\* the items of "for item in a"
PyIter(a) ==
    CASE a.t = "list" -> Val(a)
      [] a.t = "str" -> Val(ListV([i \in 1..Len(a.v) |-> StrV(<<a.v[i]>>)]))
      [] a.t = "map" -> IF DOMAIN a.v = {} THEN Val(ListV(<<>>)) ELSE Exc("OutOfModel")
      [] OTHER -> Exc("TypeError")

\* a[i] for an int i
PyIndex(a, i) ==
    CASE a.t \in {"list", "str"} ->
            LET k == IF i < 0 THEN i + Len(a.v) ELSE i
            IN  IF k < 0 \/ k >= Len(a.v) THEN Exc("IndexError")
                ELSE IF a.t = "list" THEN Val(a.v[k + 1]) ELSE Val(StrV(<<a.v[k + 1]>>))
      [] a.t = "map" -> Exc("KeyError")
      [] OTHER -> Exc("TypeError")

\* a[1:]
PyRest(a) ==
    IF a.t \in {"list", "str"}
    THEN Val([t |-> a.t, v |-> SubSeq(a.v, 2, Len(a.v))])
    ELSE Exc("TypeError")

RECURSIVE NatStr(_)
NatStr(n) ==
    LET digit == <<"0", "1", "2", "3", "4", "5", "6", "7", "8", "9">>[(n % 10) + 1]
    IN  IF n < 10 THEN <<digit>> ELSE Append(NatStr(n \div 10), digit)

\* str(a)
PyStr(a) ==
    CASE a.t = "str" -> Val(a)
      [] a.t = "int" -> Val(StrV(IF a.v < 0 THEN <<"-">> \o NatStr(-a.v) ELSE NatStr(a.v)))
      [] a.t = "bool" -> Val(StrV(IF a.v THEN <<"T", "r", "u", "e">> ELSE <<"F", "a", "l", "s", "e">>))
      [] a.t = "none" -> Val(StrV(<<"N", "o", "n", "e">>))
      [] OTHER -> Exc("OutOfModel")

(***************************************************************************)
(* Built-in registry, src/I/O (the continuation of builtins.py), and the   *)
(* vocabulary, src/src/vocabulary.py.                                      *)
(***************************************************************************)
\* _CORE_BUILTINS, in the order of the source: <<word, the function it names>>
CORE_BUILTINS ==
    <<
        <<<<"+">>, "builtin_add">>,
        <<<<"-">>, "builtin_sub">>,
        <<<<"*">>, "builtin_mul">>,
        <<<<"/">>, "builtin_div">>,
        <<<<"%">>, "builtin_mod">>,
        <<<<"=">>, "builtin_eq">>,
        <<<<"!", "=">>, "builtin_neq">>,
        <<<<"U2260">>, "builtin_neq">>,
        <<<<"<">>, "builtin_lt">>,
        <<<<">">>, "builtin_gt">>,
        <<<<"<", "=">>, "builtin_lte">>,
        <<<<"U2264">>, "builtin_lte">>,
        <<<<">", "=">>, "builtin_gte">>,
        <<<<"U2265">>, "builtin_gte">>,
        <<<<"d", "u", "p">>, "builtin_dup">>,
        <<<<"d", "r", "o", "p">>, "builtin_drop">>,
        <<<<"s", "w", "a", "p">>, "builtin_swap">>,
        <<<<"o", "v", "e", "r">>, "builtin_over">>,
        <<<<"r", "o", "t">>, "builtin_rot">>,
        <<<<"p", "r", "i", "n", "t">>, "builtin_print">>,
        <<<<".", "s">>, "builtin_show_stack">>,
        <<<<"a", "n", "d">>, "builtin_and">>,
        <<<<"o", "r">>, "builtin_or">>,
        <<<<"n", "o", "t">>, "builtin_not">>,
        <<<<"t", "r", "u", "e">>, "builtin_true">>,
        <<<<"f", "a", "l", "s", "e">>, "builtin_false">>,
        <<<<"l", "e", "n", "g", "t", "h">>, "builtin_list_length">>,
        <<<<"n", "t", "h">>, "builtin_list_get">>,
        <<<<"a", "p", "p", "e", "n", "d">>, "builtin_list_append">>,
        <<<<"f", "i", "r", "s", "t">>, "builtin_list_first">>,
        <<<<"r", "e", "s", "t">>, "builtin_list_rest">>,
        <<<<",">>, "builtin_str_concat">>,
        <<<<"m", "a", "p">>, "builtin_map">>,
        <<<<"f", "i", "l", "t", "e", "r">>, "builtin_filter">>,
        <<<<"f", "o", "l", "d">>, "builtin_fold">>,
        <<<<"e", "a", "c", "h">>, "builtin_each">>,
        <<<<"t", "i", "m", "e", "s">>, "builtin_times">>,
        <<<<"d", "o">>, "builtin_do">>
    >>

\* VOCABULARY, src/src/vocabulary.py: <<Kannada word, its English equivalent>>
VOCABULARY ==
    <<
        <<<<"U0C95", "U0CC2", "U0CA1", "U0CC1">>, <<"+">>>>,
        <<<<"U0C95", "U0CC2", "U0CA1", "U0CBF", "U0CB8", "U0CC1">>, <<"+">>>>,
        <<<<"U0C95", "U0CB3", "U0CC6">>, <<"-">>>>,
        <<<<"U0C95", "U0CB3", "U0CC6", "U0CAF", "U0CBF", "U0CB0", "U0CBF">>, <<"-">>>>,
        <<<<"U0C97", "U0CC1", "U0CA3", "U0CBF", "U0CB8", "U0CC1">>, <<"*">>>>,
        <<<<"U0C97", "U0CC1", "U0CA3", "U0CBE", "U0C95", "U0CBE", "U0CB0">>, <<"*">>>>,
        <<<<"U0CAD", "U0CBE", "U0C97", "U0CBF", "U0CB8", "U0CC1">>, <<"/">>>>,
        <<<<"U0CAD", "U0CBE", "U0C97", "U0CBE", "U0C95", "U0CBE", "U0CB0">>, <<"/">>>>,
        <<<<"U0CB6", "U0CC7", "U0CB7">>, <<"%">>>>,
        <<<<"U0CB8", "U0CAE">>, <<"=">>>>,
        <<<<"U0CB8", "U0CAE", "U0CA8", "U0CB2", "U0CCD", "U0CB2">>, <<"!", "=">>>>,
        <<<<"U0C95", "U0CBF", "U0CB0", "U0CBF", "U0CA6", "U0CC1">>, <<"<">>>>,
        <<<<"U0CB9", "U0CBF", "U0CB0", "U0CBF", "U0CA6", "U0CC1">>, <<">">>>>,
        <<<<"U0C95", "U0CBF", "U0CB0", "U0CBF", "U0CA6", "U0CC1", "U0CB8", "U0CAE">>, <<"<", "=">>>>,
        <<<<"U0CB9", "U0CBF", "U0CB0", "U0CBF", "U0CA6", "U0CC1", "U0CB8", "U0CAE">>, <<">", "=">>>>,
        <<<<"U0CB8", "U0CB0", "U0CBF">>, <<"t", "r", "u", "e">>>>,
        <<<<"U0CA4", "U0CAA", "U0CCD", "U0CAA", "U0CC1">>, <<"f", "a", "l", "s", "e">>>>,
        <<<<"U0CAC", "U0CC7", "U0CB8">>, <<"f", "a", "l", "s", "e">>>>,
        <<<<"U0CAE", "U0CA4", "U0CCD", "U0CA4", "U0CC1">>, <<"a", "n", "d">>>>,
        <<<<"U0C85", "U0CA5", "U0CB5", "U0CBE">>, <<"o", "r">>>>,
        <<<<"U0C85", "U0CB2", "U0CCD", "U0CB2">>, <<"n", "o", "t">>>>,
        <<<<"U0CA8", "U0C95", "U0CB2", "U0CC1">>, <<"d", "u", "p">>>>,
        <<<<"U0CAC", "U0CBF", "U0CA1", "U0CC1">>, <<"d", "r", "o", "p">>>>,
        <<<<"U0C85", "U0CA6", "U0CB2", "U0CC1", "U0CAC", "U0CA6", "U0CB2", "U0CC1">>, <<"s", "w", "a", "p">>>>,
        <<<<"U0CAE", "U0CC7", "U0CB2", "U0CC6">>, <<"o", "v", "e", "r">>>>,
        <<<<"U0CA4", "U0CBF", "U0CB0", "U0CC1", "U0C97", "U0CBF", "U0CB8", "U0CC1">>, <<"r", "o", "t">>>>,
        <<<<"U0CAE", "U0CC1", "U0CA6", "U0CCD", "U0CB0", "U0CBF", "U0CB8", "U0CC1">>, <<"p", "r", "i", "n", "t">>>>,
        <<<<"U0C93", "U0CA6", "U0CC1">>, <<"r", "e", "a", "d">>>>,
        <<<<"U0CAC", "U0CB0", "U0CC6">>, <<"w", "r", "i", "t", "e">>>>,
        <<<<"U0C89", "U0CA6", "U0CCD", "U0CA6">>, <<"l", "e", "n", "g", "t", "h">>>>,
        <<<<"U0CA4", "U0CC6", "U0C97", "U0CC6">>, <<"n", "t", "h">>>>,
        <<<<"U0CB8", "U0CC7", "U0CB0", "U0CBF", "U0CB8", "U0CC1">>, <<"a", "p", "p", "e", "n", "d">>>>,
        <<<<"U0CAE", "U0CCA", "U0CA6", "U0CB2">>, <<"f", "i", "r", "s", "t">>>>,
        <<<<"U0C95", "U0CCA", "U0CA8", "U0CC6">>, <<"l", "a", "s", "t">>>>,
        <<<<"U0C89", "U0CB3", "U0CBF", "U0CA6">>, <<"r", "e", "s", "t">>>>,
        <<<<"U0C9C", "U0CCB", "U0CA1", "U0CBF", "U0CB8", "U0CC1">>, <<",">>>>,
        <<<<"U0CA8", "U0C95", "U0CCD", "U0CB7", "U0CC6">>, <<"m", "a", "p">>>>,
        <<<<"U0CB8", "U0CCB", "U0CB8", "U0CC1">>, <<"f", "i", "l", "t", "e", "r">>>>,
        <<<<"U0CAE", "U0CA1", "U0CBF", "U0CB8", "U0CC1">>, <<"f", "o", "l", "d">>>>,
        <<<<"U0CAA", "U0CCD", "U0CB0", "U0CA4", "U0CBF", "U0CAF", "U0CCA", "U0C82", "U0CA6", "U0C95", "U0CCD", "U0C95", "U0CC2">>, <<"e", "a", "c", "h">>>>,
        <<<<"U0CB8", "U0CBE", "U0CB0", "U0CBF">>, <<"t", "i", "m", "e", "s">>>>,
        <<<<"U0CAE", "U0CBE", "U0CA1", "U0CC1">>, <<"d", "o">>>>,
        <<<<"U0C95", "U0CB0", "U0CC6">>, <<"d", "o">>>>
    >>

\* BOOLEAN_WORDS, src/src/vocabulary.py: <<word, the boolean it stands for>>
BOOLEAN_WORDS ==
    <<
        <<<<"U0CA8", "U0CBF", "U0C9C">>, TRUE>>,
        <<<<"t", "r", "u", "e">>, TRUE>>,
        <<<<"U0CB8", "U0CB0", "U0CBF">>, TRUE>>,
        <<<<"U0CB9", "U0CCC", "U0CA6", "U0CC1">>, TRUE>>,
        <<<<"U0CB8", "U0CC1", "U0CB3", "U0CCD", "U0CB3", "U0CC1">>, FALSE>>,
        <<<<"f", "a", "l", "s", "e">>, FALSE>>,
        <<<<"U0CA4", "U0CAA", "U0CCD", "U0CAA", "U0CC1">>, FALSE>>,
        <<<<"U0CAC", "U0CC7", "U0CB8">>, FALSE>>,
        <<<<"U0C87", "U0CB2", "U0CCD", "U0CB2">>, FALSE>>
    >>

CoreNames == {CORE_BUILTINS[i][1] : i \in 1..Len(CORE_BUILTINS)}

\* _build_builtins: the core registry plus every vocabulary word whose
\* English equivalent is a core built-in
BUILTINS ==
    LET core(name) ==
            CORE_BUILTINS[CHOOSE i \in 1..Len(CORE_BUILTINS) : CORE_BUILTINS[i][1] = name][2]
        aliases == {i \in 1..Len(VOCABULARY) : VOCABULARY[i][2] \in CoreNames}
        english(name) == VOCABULARY[CHOOSE i \in aliases : VOCABULARY[i][1] = name][2]
    IN  [name \in CoreNames \cup {VOCABULARY[i][1] : i \in aliases} |->
            IF name \in CoreNames THEN core(name) ELSE core(english(name))]

(***************************************************************************)
(* Virtual machine, src/src/vm/vm.py.  The VM object and the call in       *)
(* progress are one record: stack, words, variables, tokens, pos are the   *)
(* object's fields; err is the exception in flight ([kind |-> "none"]      *)
(* when there is none), ret the value the last call returned, depth the    *)
(* number of _run_block calls on the host stack, printed what print wrote. *)
(* dict values are functions whose domain is the set of keys.              *)
(***************************************************************************)
EmptyDict == [k \in {} |-> NoneV]

DictSet(d, key, value) == [k \in DOMAIN d \cup {key} |-> IF k = key THEN value ELSE d[k]]

DictDel(d, key) == [k \in DOMAIN d \ {key} |-> d[k]]

NoErr == [kind |-> "none", msg |-> <<>>]

\* what the call in progress has done so far, kept for the properties:
\* underflow: pop() was called on an empty stack; nonbool: a condition or an
\* operand of and/or/not was an Int, Float, String, List, Map or Block;
\* binds: for each _run_block that bound its parameters, the parameters the
\* block's source declares, the stack before and after, the variables after;
\* rets: for each _run_block that returned, the block's parameters and the
\* variables at entry and at return
NoHist == [underflow |-> FALSE, nonbool |-> FALSE, binds |-> <<>>, rets |-> <<>>]

VM ==
    [stack |-> <<>>, words |-> EmptyDict, variables |-> EmptyDict,
     tokens |-> <<>>, pos |-> 0, err |-> NoErr, ret |-> NoneV, depth |-> 0,
     printed |-> <<>>, hang |-> FALSE, hist |-> NoHist]

Ok(s) == s.err.kind = "none"

Raise(s, kind, msg) == [s EXCEPT !.err = [kind |-> kind, msg |-> msg]]

KapilaError(s, msg) == Raise(s, "KapilaError", msg)

Return(s, value) == [s EXCEPT !.ret = value]

\* r is the VM after a call: the statements after the call run when it
\* returned, and the exception it raised propagates
Try(r, rest(_)) == IF r.err.kind = "none" THEN rest(r) ELSE r

\* the state after a host operation: its value returned, or its exception raised
Host(s, r) == IF r.exc = "none" THEN Return(s, r.val) ELSE Raise(s, r.exc, <<>>)

VM_push(s, value) == [s EXCEPT !.stack = Append(@, value)]

\* pop that gives None on an empty stack and goes on
VM_pop_silent(s) ==
    IF s.stack = <<>>
    THEN Return([s EXCEPT !.hist.underflow = TRUE], NoneV)
    ELSE [s EXCEPT !.stack = SubSeq(@, 1, Len(@) - 1), !.ret = s.stack[Len(s.stack)]]

VM_pop(s) ==
    IF s.stack = <<>>
    THEN KapilaError([s EXCEPT !.hist.underflow = TRUE], <<"Stack underflow">>)
    ELSE [s EXCEPT !.stack = SubSeq(@, 1, Len(@) - 1), !.ret = s.stack[Len(s.stack)]]

VM_at_end(s) == s.pos >= Len(s.tokens) \/ s.tokens[s.pos + 1].type = "EOF"

VM_current(s) ==
    IF VM_at_end(s) THEN Token("EOF", <<>>, 0, 0, NoneV) ELSE s.tokens[s.pos + 1]

\* the VM after _advance(); the token it returns is VM_current of before
VM_advance(s) == [s EXCEPT !.pos = @ + 1]

VM_peek_type(s, offset) ==
    IF s.pos + offset >= Len(s.tokens) THEN "EOF" ELSE s.tokens[s.pos + offset + 1].type

\* the host stack depth at which Python gives up (RecursionError)
MaxDepth == 5

kw_true == {<<"U0CA8", "U0CBF", "U0C9C">>, <<"t", "r", "u", "e">>}
kw_false == {<<"U0CB8", "U0CC1", "U0CB3", "U0CCD", "U0CB3", "U0CC1">>, <<"f", "a", "l", "s", "e">>}
kw_or == {<<"U0C85", "U0CA5", "U0CB5", "U0CBE">>, <<"o", "r">>}
kw_and == {<<"U0CAE", "U0CA4", "U0CCD", "U0CA4", "U0CC1">>, <<"a", "n", "d">>}
kw_not == {<<"U0C85", "U0CB2", "U0CCD", "U0CB2">>, <<"n", "o", "t">>}

\* the condition of "if", "and", "or", "not" is tested for truth
TruthTest(s, v) ==
    IF v.t \in {"int", "float", "str", "list", "map", "block"}
    THEN [s EXCEPT !.hist.nonbool = TRUE]
    ELSE s

\* self.<method>(...): the method is looked up on the VM when the call is
\* made; VM_call is that lookup, defined after the methods
RECURSIVE VM_call(_, _, _)

self_run_block(s, x) == VM_call("_run_block", s, x)
self_parse_expr(s) == VM_call("_parse_expr", s, <<>>)
self_execute_word(s, x) == VM_call("_execute_word", s, x)
self_execute_token(s, x) == VM_call("_execute_token", s, x)
self_builtins(s, x) == VM_call("builtins", s, x)
self_parse_block(s) == VM_call("_parse_block", s, <<>>)
self_parse_map(s) == VM_call("_parse_map", s, <<>>)
self_parse_unary(s) == VM_call("_parse_unary", s, <<>>)
self_parse_list_or_block(s) == VM_call("_parse_list_or_block", s, <<>>)
self_toplevel_statement(s) == VM_call("_toplevel_statement", s, <<>>)
self_run(s, x) == VM_call("run", s, x)

\* === built-in words: src/src/vm/builtins.py and src/I/O ===

\* b = vm.pop(); a = vm.pop(): ret is <<a, b>>
Pop2(s) ==
    Try(VM_pop(s), LAMBDA s1 :
    Try(VM_pop(s1), LAMBDA s2 : Return(s2, <<s2.ret, s1.ret>>)))

\* pop b, pop a, push op(a, b)
Binary(s, op(_, _)) ==
    Try(Pop2(s), LAMBDA p :
    Try(Host(p, op(p.ret[1], p.ret[2])), LAMBDA r : VM_push(r, r.ret)))

builtin_dup(s) ==
    Try(VM_pop(s), LAMBDA s1 : VM_push(VM_push(s1, s1.ret), s1.ret))

builtin_drop(s) == VM_pop(s)

builtin_swap(s) ==
    Try(Pop2(s), LAMBDA p : VM_push(VM_push(p, p.ret[2]), p.ret[1]))

builtin_over(s) ==
    Try(Pop2(s), LAMBDA p :
        VM_push(VM_push(VM_push(p, p.ret[1]), p.ret[2]), p.ret[1]))

\* rot turning the other way: ( a b c -- c a b )
builtin_rot_back(s) ==
    Try(Pop2(s), LAMBDA p :
    Try(VM_pop(p), LAMBDA s3 :
        VM_push(VM_push(VM_push(s3, p.ret[2]), s3.ret), p.ret[1])))

builtin_rot(s) ==
    Try(Pop2(s), LAMBDA p :
    Try(VM_pop(p), LAMBDA s3 :
        VM_push(VM_push(VM_push(s3, p.ret[1]), p.ret[2]), s3.ret)))

builtin_print(s) ==
    Try(VM_pop(s), LAMBDA s1 : [s1 EXCEPT !.printed = Append(@, s1.ret)])

builtin_show_stack(s) == [s EXCEPT !.printed = Append(@, ListV(s.stack))]

builtin_and(s) ==
    Try(Pop2(s), LAMBDA p :
        VM_push(TruthTest(TruthTest(p, p.ret[1]), p.ret[2]), PyAnd(p.ret[1], p.ret[2])))

builtin_or(s) ==
    Try(Pop2(s), LAMBDA p :
        VM_push(TruthTest(TruthTest(p, p.ret[1]), p.ret[2]), PyOr(p.ret[1], p.ret[2])))

builtin_not(s) ==
    Try(VM_pop(s), LAMBDA s1 : VM_push(TruthTest(s1, s1.ret), PyNot(s1.ret)))

builtin_list_length(s) ==
    Try(VM_pop(s), LAMBDA s1 :
    Try(Host(s1, PyLen(s1.ret)), LAMBDA r : VM_push(r, r.ret)))

\* n = pop(), lst = pop(), push(lst[int(n)])
builtin_list_get(s) ==
    Try(Pop2(s), LAMBDA p :
    Try(Host(p, PyInt(p.ret[2])), LAMBDA n :
    Try(Host(p, PyIndex(p.ret[1], n.ret.v)), LAMBDA r : VM_push(r, r.ret))))

builtin_list_append(s) ==
    Binary(s, LAMBDA lst, item : PyAdd(lst, ListV(<<item>>)))

builtin_list_first(s) ==
    Try(VM_pop(s), LAMBDA s1 :
    Try(Host(s1, PyIndex(s1.ret, 0)), LAMBDA r : VM_push(r, r.ret)))

builtin_list_rest(s) ==
    Try(VM_pop(s), LAMBDA s1 :
    Try(Host(s1, PyRest(s1.ret)), LAMBDA r : VM_push(r, r.ret)))

\* push(str(a) + str(b))
builtin_str_concat(s) ==
    Binary(s, LAMBDA a, b :
        IF PyStr(a).exc # "none" THEN PyStr(a)
        ELSE IF PyStr(b).exc # "none" THEN PyStr(b)
        ELSE PyAdd(PyStr(a).val, PyStr(b).val))

VM_execute_quotation(s, block) == self_run_block(s, block)

\* quot = pop(), lst = pop(); for item in lst: push(item);
\* execute_quotation(quot); result.append(pop())
builtin_map(s) ==
    Try(Pop2(s), LAMBDA p :
    Try(Host(p, PyIter(p.ret[1])), LAMBDA it :
        LET RECURSIVE loop(_, _, _)
            loop(t, i, result) ==
                IF i > Len(it.ret.v) THEN VM_push(t, ListV(result))
                ELSE Try(VM_execute_quotation(VM_push(t, it.ret.v[i]), p.ret[2]),
                         LAMBDA s1 :
                     Try(VM_pop(s1), LAMBDA s2 :
                         loop(s2, i + 1, Append(result, s2.ret))))
        IN  loop(it, 1, <<>>)))

builtin_filter(s) ==
    Try(Pop2(s), LAMBDA p :
    Try(Host(p, PyIter(p.ret[1])), LAMBDA it :
        LET RECURSIVE loop(_, _, _)
            loop(t, i, result) ==
                IF i > Len(it.ret.v) THEN VM_push(t, ListV(result))
                ELSE Try(VM_execute_quotation(VM_push(t, it.ret.v[i]), p.ret[2]),
                         LAMBDA s1 :
                     Try(VM_pop(s1), LAMBDA s2 :
                         loop(s2, i + 1,
                              IF Truthy(s2.ret) THEN Append(result, it.ret.v[i])
                              ELSE result)))
        IN  loop(it, 1, <<>>)))

\* a fold that pushes the element below the accumulator
builtin_fold_item_first(s) ==
    Try(Pop2(s), LAMBDA p :
    Try(VM_pop(p), LAMBDA s3 :
    Try(Host(s3, PyIter(s3.ret)), LAMBDA it :
        LET RECURSIVE loop(_, _, _)
            loop(t, i, acc) ==
                IF i > Len(it.ret.v) THEN VM_push(t, acc)
                ELSE Try(VM_execute_quotation(VM_push(VM_push(t, it.ret.v[i]), acc),
                                              p.ret[2]), LAMBDA s1 :
                     Try(VM_pop(s1), LAMBDA s2 : loop(s2, i + 1, s2.ret)))
        IN  loop(it, 1, p.ret[1]))))

\* quot = pop(), acc = pop(), lst = pop()
builtin_fold(s) ==
    Try(Pop2(s), LAMBDA p :
    Try(VM_pop(p), LAMBDA s3 :
    Try(Host(s3, PyIter(s3.ret)), LAMBDA it :
        LET RECURSIVE loop(_, _, _)
            loop(t, i, acc) ==
                IF i > Len(it.ret.v) THEN VM_push(t, acc)
                ELSE Try(VM_execute_quotation(VM_push(VM_push(t, acc), it.ret.v[i]),
                                              p.ret[2]), LAMBDA s1 :
                     Try(VM_pop(s1), LAMBDA s2 : loop(s2, i + 1, s2.ret)))
        IN  loop(it, 1, p.ret[1]))))

builtin_each(s) ==
    Try(Pop2(s), LAMBDA p :
    Try(Host(p, PyIter(p.ret[1])), LAMBDA it :
        LET RECURSIVE loop(_, _)
            loop(t, i) ==
                IF i > Len(it.ret.v) THEN t
                ELSE Try(VM_execute_quotation(VM_push(t, it.ret.v[i]), p.ret[2]),
                         LAMBDA s1 : loop(s1, i + 1))
        IN  loop(it, 1)))

\* quot = pop(), n = int(pop()); for i in range(n): push(i);
\* execute_quotation(quot); pop()
builtin_times(s) ==
    Try(Pop2(s), LAMBDA p :
    Try(Host(p, PyInt(p.ret[1])), LAMBDA n :
        LET RECURSIVE loop(_, _)
            loop(t, i) ==
                IF i >= n.ret.v THEN t
                ELSE Try(VM_execute_quotation(VM_push(t, IntV(i)), p.ret[2]),
                         LAMBDA s1 :
                     Try(VM_pop(s1), LAMBDA s2 : loop(s2, i + 1)))
        IN  loop(n, 0)))

builtin_do(s) ==
    Try(VM_pop(s), LAMBDA s1 : VM_execute_quotation(s1, s1.ret))

\* self.builtins[name](self); builtin_add ... builtin_gte pop b, pop a and
\* push a <op> b; builtin_true and builtin_false push the literal
CallBuiltin(s, name) ==
    LET call(f) ==
        CASE f = "builtin_add" -> Binary(s, PyAdd)
          [] f = "builtin_sub" -> Binary(s, PySub)
          [] f = "builtin_mul" -> Binary(s, PyMul)
          [] f = "builtin_div" -> Binary(s, PyTrueDiv)
          [] f = "builtin_mod" -> Binary(s, PyMod)
          [] f = "builtin_eq" -> Binary(s, PyEq)
          [] f = "builtin_neq" -> Binary(s, PyNe)
          [] f = "builtin_lt" -> Binary(s, PyLt)
          [] f = "builtin_gt" -> Binary(s, PyGt)
          [] f = "builtin_lte" -> Binary(s, PyLe)
          [] f = "builtin_gte" -> Binary(s, PyGe)
          [] f = "builtin_dup" -> builtin_dup(s)
          [] f = "builtin_drop" -> builtin_drop(s)
          [] f = "builtin_swap" -> builtin_swap(s)
          [] f = "builtin_over" -> builtin_over(s)
          [] f = "builtin_rot" -> builtin_rot(s)
          [] f = "builtin_print" -> builtin_print(s)
          [] f = "builtin_show_stack" -> builtin_show_stack(s)
          [] f = "builtin_and" -> builtin_and(s)
          [] f = "builtin_or" -> builtin_or(s)
          [] f = "builtin_not" -> builtin_not(s)
          [] f = "builtin_true" -> VM_push(s, BoolV(TRUE))
          [] f = "builtin_false" -> VM_push(s, BoolV(FALSE))
          [] f = "builtin_list_length" -> builtin_list_length(s)
          [] f = "builtin_list_get" -> builtin_list_get(s)
          [] f = "builtin_list_append" -> builtin_list_append(s)
          [] f = "builtin_list_first" -> builtin_list_first(s)
          [] f = "builtin_list_rest" -> builtin_list_rest(s)
          [] f = "builtin_str_concat" -> builtin_str_concat(s)
          [] f = "builtin_map" -> builtin_map(s)
          [] f = "builtin_filter" -> builtin_filter(s)
          [] f = "builtin_fold" -> builtin_fold(s)
          [] f = "builtin_each" -> builtin_each(s)
          [] f = "builtin_times" -> builtin_times(s)
          [] f = "builtin_do" -> builtin_do(s)
    IN  call(BUILTINS[name])

\* === word execution: vm.py 407-511 ===

VM_execute_word(s, name) ==
    IF name \in DOMAIN BUILTINS THEN self_builtins(s, name)
    ELSE IF name \in DOMAIN s.words THEN self_run_block(s, s.words[name])
    ELSE IF name \in DOMAIN s.variables THEN VM_push(s, s.variables[name])
    ELSE KapilaError(s, <<"Unknown word: ">> \o name)

\* _execute_token looking a word up like _execute_word: built-ins before variables
VM_execute_token_builtins_first(s, token) ==
    LET name == token.value
    IN  CASE token.type \in {"NUMBER", "STRING"} -> VM_push(s, token.literal)
          [] token.type = "WORD" ->
                IF name \in kw_true THEN VM_push(s, BoolV(TRUE))
                ELSE IF name \in kw_false THEN VM_push(s, BoolV(FALSE))
                ELSE self_execute_word(s, name)
          [] token.type = "PLUS" -> Binary(s, PyAdd)
          [] token.type = "MINUS" -> Binary(s, PySub)
          [] token.type = "STAR" -> Binary(s, PyMul)
          [] token.type = "SLASH" -> Binary(s, PyTrueDiv)
          [] token.type = "PERCENT" -> Binary(s, PyMod)
          [] token.type = "EQ" -> Binary(s, PyEq)
          [] token.type = "LT" -> Binary(s, PyLt)
          [] token.type = "GT" -> Binary(s, PyGt)
          [] token.type = "LTE" -> Binary(s, PyLe)
          [] token.type = "GTE" -> Binary(s, PyGe)
          [] token.type = "NEQ" -> Binary(s, PyNe)
          [] OTHER -> s

VM_execute_token(s, token) ==
    LET name == token.value
    IN  CASE token.type \in {"NUMBER", "STRING"} -> VM_push(s, token.literal)
          [] token.type = "WORD" ->
                IF name \in kw_true THEN VM_push(s, BoolV(TRUE))
                ELSE IF name \in kw_false THEN VM_push(s, BoolV(FALSE))
                ELSE IF name \in DOMAIN s.variables THEN VM_push(s, s.variables[name])
                ELSE IF name \in DOMAIN BUILTINS THEN self_builtins(s, name)
                ELSE IF name \in DOMAIN s.words THEN self_run_block(s, s.words[name])
                ELSE KapilaError(s, <<"Unknown word: ">> \o name)
          [] token.type = "PLUS" -> Binary(s, PyAdd)
          [] token.type = "MINUS" -> Binary(s, PySub)
          [] token.type = "STAR" -> Binary(s, PyMul)
          [] token.type = "SLASH" -> Binary(s, PyTrueDiv)
          [] token.type = "PERCENT" -> Binary(s, PyMod)
          [] token.type = "EQ" -> Binary(s, PyEq)
          [] token.type = "LT" -> Binary(s, PyLt)
          [] token.type = "GT" -> Binary(s, PyGt)
          [] token.type = "LTE" -> Binary(s, PyLe)
          [] token.type = "GTE" -> Binary(s, PyGe)
          [] token.type = "NEQ" -> Binary(s, PyNe)
          [] OTHER -> s

\* a block that is a str is a quoted word; a value that is neither a str nor
\* a Block has no attribute params; a call deeper than the host stack allows
\* is a RecursionError
VM_run_block(s, block) ==
    LET params == block.v.params
        get(t, param) == IF param \in DOMAIN t.variables THEN t.variables[param] ELSE NoneV
        put(saved, param, val) ==
            IF \E j \in 1..Len(saved) : saved[j][1] = param
            THEN [j \in 1..Len(saved) |-> IF saved[j][1] = param THEN <<param, val>> ELSE saved[j]]
            ELSE Append(saved, <<param, val>>)
        \* for param in reversed(block.params)
        RECURSIVE bind(_, _, _)
        bind(t, i, saved) ==
            IF i = 0 THEN [vm |-> t, saved |-> saved]
            ELSE LET p == VM_pop(t)
                 IN  IF ~Ok(p) THEN [vm |-> p, saved |-> saved]
                     ELSE bind([p EXCEPT !.variables = DictSet(@, params[i], p.ret)],
                               i - 1, put(saved, params[i], get(t, params[i])))
        b == bind([s EXCEPT !.depth = @ + 1], Len(params), <<>>)
        bound == [b.vm EXCEPT !.hist.binds =
                     Append(@, [declared |-> block.v.declared, stack0 |-> s.stack,
                                stack1 |-> b.vm.stack, variables |-> b.vm.variables])]
        \* for token in block.tokens
        RECURSIVE exec(_, _)
        exec(t, i) ==
            IF ~Ok(t) \/ i > Len(block.v.tokens) THEN t
            ELSE exec(self_execute_token(t, block.v.tokens[i]), i + 1)
        \* for param, val in saved_vars.items()
        RECURSIVE restore(_, _)
        restore(t, j) ==
            IF j > Len(b.saved) THEN t
            ELSE restore([t EXCEPT !.variables =
                             IF b.saved[j][2].t = "none"
                             THEN DictDel(@, b.saved[j][1])
                             ELSE DictSet(@, b.saved[j][1], b.saved[j][2])], j + 1)
        return(restored) ==
            [restored EXCEPT !.depth = s.depth,
                             !.hist.rets = Append(@, [params |-> params,
                                                      before |-> s.variables,
                                                      after |-> restored.variables])]
    IN  IF block.t = "str" THEN self_execute_word(s, block.v)
        ELSE IF block.t # "block" THEN Raise(s, "AttributeError", <<>>)
        ELSE IF s.depth >= MaxDepth THEN Raise(s, "RecursionError", <<>>)
        ELSE IF ~Ok(b.vm) THEN b.vm
        ELSE Try(exec(bound, 1), LAMBDA done : return(restore(done, 1)))

\* === top level: vm.py 87-403 ===

\* the names a block's source declares: "[ name name ... | body ]"
DeclaredParams(s) ==
    LET RECURSIVE names(_, _)
        names(t, acc) ==
            IF VM_current(t).type = "WORD"
            THEN names(VM_advance(t), Append(acc, VM_current(t).value))
            ELSE IF VM_current(t).type = "PIPE" THEN acc ELSE <<>>
    IN  names(s, <<>>)

VM_parse_block_body(s) ==
    LET saved == s.pos
        \* while current is a WORD: params.append(advance()); on a PIPE: advance, break
        RECURSIVE inner(_, _)
        inner(t, params) ==
            IF VM_current(t).type # "WORD" THEN [vm |-> t, params |-> params]
            ELSE LET a == VM_advance(t)
                     ps == Append(params, VM_current(t).value)
                 IN  IF VM_current(a).type = "PIPE"
                     THEN [vm |-> VM_advance(a), params |-> ps]
                     ELSE inner(a, ps)
        p == IF VM_current(s).type = "WORD" /\ VM_peek_type(s, 1) = "PIPE"
             THEN inner(s, <<>>)
             ELSE [vm |-> s, params |-> <<>>]
        s1 == IF p.params = <<>> THEN [p.vm EXCEPT !.pos = saved] ELSE p.vm
        RECURSIVE body(_, _, _)
        body(t, depth, toks) ==
            LET tk == VM_current(t)
            IN  IF VM_at_end(t) THEN KapilaError(t, <<"Unterminated block">>)
                ELSE IF tk.type = "RBRACKET" /\ depth = 1
                THEN Return(VM_advance(t), BlockV(toks, p.params, DeclaredParams(s)))
                ELSE body(VM_advance(t),
                          CASE tk.type = "LBRACKET" -> depth + 1
                            [] tk.type = "RBRACKET" -> depth - 1
                            [] OTHER -> depth,
                          Append(toks, tk))
    IN  body(s1, 1, <<>>)

VM_parse_block(s) ==
    IF VM_current(s).type # "LBRACKET"
    THEN KapilaError(s, <<"Expected '['">>)
    ELSE VM_parse_block_body(VM_advance(s))

VM_parse_primary(s) ==
    LET token == VM_current(s)
        name == token.value
    IN  CASE token.type \in {"NUMBER", "STRING"} -> Return(VM_advance(s), token.literal)
          [] token.type = "WORD" ->
                IF name \in DOMAIN s.variables THEN Return(VM_advance(s), s.variables[name])
                ELSE IF name \in kw_true THEN Return(VM_advance(s), BoolV(TRUE))
                ELSE IF name \in kw_false THEN Return(VM_advance(s), BoolV(FALSE))
                ELSE Return(s, NoneV)
          [] token.type = "LBRACKET" -> self_parse_list_or_block(s)
          [] token.type = "LBRACE" -> self_parse_map(s)
          [] OTHER -> Return(s, NoneV)

VM_parse_unary(s) ==
    IF VM_current(s).type = "MINUS"
    THEN Try(self_parse_unary(VM_advance(s)), LAMBDA r : Host(r, PyNeg(r.ret)))
    ELSE IF VM_current(s).value \in kw_not
    THEN Try(self_parse_unary(VM_advance(s)), LAMBDA r :
             Return(TruthTest(r, r.ret), PyNot(r.ret)))
    ELSE VM_parse_primary(s)

\* left <op> right, the right operand parsed: r is the VM after parsing it
Infix(left, r, op(_, _)) == Try(r, LAMBDA t : Host(t, op(left, t.ret)))

\* left = operand(); while the current token is an operator of the level:
\* advance, right = operand(), left = left <op> right.  loop(t, op): t is the
\* VM before an operand (t.ret the left operand), op the operator before it
VM_parse_multiplicative(s) ==
    LET RECURSIVE loop(_, _)
        loop(t, op) ==
            LET left(right) ==
                    CASE op = "STAR" -> Infix(t.ret, right, PyMul)
                      [] op = "SLASH" -> Infix(t.ret, right, PyTrueDiv)
                      [] op = "PERCENT" -> Infix(t.ret, right, PyMod)
                      [] OTHER -> right
                while(l) ==
                    IF ~Ok(l) \/ VM_current(l).type \notin {"STAR", "SLASH", "PERCENT"}
                    THEN l
                    ELSE loop(VM_advance(l), VM_current(l).type)
            IN  while(left(self_parse_unary(t)))
    IN  loop(s, "none")

VM_parse_additive(s) ==
    LET RECURSIVE loop(_, _)
        loop(t, op) ==
            LET left(right) ==
                    CASE op = "PLUS" -> Infix(t.ret, right, PyAdd)
                      [] op = "MINUS" -> Infix(t.ret, right, PySub)
                      [] OTHER -> right
                while(l) ==
                    IF ~Ok(l) \/ VM_current(l).type \notin {"PLUS", "MINUS"} THEN l
                    ELSE loop(VM_advance(l), VM_current(l).type)
            IN  while(left(VM_parse_multiplicative(t)))
    IN  loop(s, "none")

VM_parse_comparison(s) ==
    LET RECURSIVE loop(_, _)
        loop(t, op) ==
            LET left(right) ==
                    CASE op = "EQ" -> Infix(t.ret, right, PyEq)
                      [] op = "NEQ" -> Infix(t.ret, right, PyNe)
                      [] op = "LT" -> Infix(t.ret, right, PyLt)
                      [] op = "GT" -> Infix(t.ret, right, PyGt)
                      [] op = "LTE" -> Infix(t.ret, right, PyLe)
                      [] op = "GTE" -> Infix(t.ret, right, PyGe)
                      [] OTHER -> right
                while(l) ==
                    IF ~Ok(l) \/ VM_current(l).type \notin
                                    {"EQ", "NEQ", "LT", "GT", "LTE", "GTE"}
                    THEN l
                    ELSE loop(VM_advance(l), VM_current(l).type)
            IN  while(left(VM_parse_additive(t)))
    IN  loop(s, "none")

\* left = left and self._parse_comparison(): the right operand is parsed
\* only when left is true.  loop(t, parse): t is the VM before an operand,
\* which is parsed when parse holds and is t.ret (the left operand) otherwise
VM_parse_and(s) ==
    LET RECURSIVE loop(_, _)
        loop(t, parse) ==
            LET while(left) ==
                    IF ~Ok(left) \/ VM_current(left).value \notin kw_and THEN left
                    ELSE loop(TruthTest(VM_advance(left), left.ret), Truthy(left.ret))
            IN  while(IF parse THEN VM_parse_comparison(t) ELSE t)
    IN  loop(s, TRUE)

\* left = left or self._parse_and(): the right operand is parsed only when
\* left is false
VM_parse_or(s) ==
    LET RECURSIVE loop(_, _)
        loop(t, parse) ==
            LET while(left) ==
                    IF ~Ok(left) \/ VM_current(left).value \notin kw_or THEN left
                    ELSE loop(TruthTest(VM_advance(left), left.ret), ~Truthy(left.ret))
            IN  while(IF parse THEN VM_parse_and(t) ELSE t)
    IN  loop(s, TRUE)

\* a conditional that runs its then-block whatever the condition is
VM_parse_ternary_then_always(s) ==
    Try(VM_parse_or(s), LAMBDA e :
        IF VM_current(e).type # "QUESTION" THEN e
        ELSE Try(self_parse_block(VM_advance(e)), LAMBDA true_block :
             Try(IF VM_current(true_block).type = "LBRACKET"
                 THEN self_parse_block(true_block)
                 ELSE Return(true_block, NoneV), LAMBDA false_block :
                 Try(self_run_block(false_block, true_block.ret),
                     LAMBDA r : Return(r, NoneV)))))

VM_parse_ternary(s) ==
    Try(VM_parse_or(s), LAMBDA e :
        IF VM_current(e).type # "QUESTION" THEN e
        ELSE Try(self_parse_block(VM_advance(e)), LAMBDA true_block :
             Try(IF VM_current(true_block).type = "LBRACKET"
                 THEN self_parse_block(true_block)
                 ELSE Return(true_block, NoneV), LAMBDA false_block :
                 LET t == TruthTest(false_block, e.ret)
                 IN  IF Truthy(e.ret) \/ Truthy(false_block.ret)
                     THEN Try(self_run_block(t, IF Truthy(e.ret) THEN true_block.ret
                                              ELSE false_block.ret),
                              LAMBDA r : Return(r, NoneV))
                     ELSE Return(t, NoneV))))

VM_parse_expr(s) == VM_parse_ternary(s)

VM_parse_list_or_block(s) ==
    LET start == VM_advance(s)
        \* the scan for a word that is a built-in or a user word
        RECURSIVE scan(_, _, _)
        scan(t, depth, has_action) ==
            LET tk == VM_current(t)
            IN  IF depth <= 0 \/ VM_at_end(t) THEN has_action
                ELSE IF tk.type = "LBRACKET" THEN scan(VM_advance(t), depth + 1, has_action)
                ELSE IF tk.type = "RBRACKET"
                THEN IF depth = 1 THEN has_action ELSE scan(VM_advance(t), depth - 1, has_action)
                ELSE IF tk.type = "WORD"
                THEN scan(VM_advance(t), depth,
                          \/ has_action
                          \/ tk.value \in DOMAIN BUILTINS
                          \/ tk.value \in DOMAIN t.words)
                ELSE scan(VM_advance(t), depth, has_action)
        RECURSIVE list(_, _)
        list(t, items) ==
            IF VM_current(t).type = "RBRACKET" THEN Return(VM_advance(t), ListV(items))
            ELSE IF VM_at_end(t) THEN KapilaError(t, <<"Unterminated list">>)
            ELSE Try(self_parse_expr(t), LAMBDA val :
                     list(IF val.ret.t # "none" THEN val ELSE VM_advance(val),
                          IF val.ret.t # "none" THEN Append(items, val.ret) ELSE items))
    IN  IF scan(start, 1, FALSE) THEN VM_parse_block_body(start) ELSE list(start, <<>>)

VM_parse_map(s) ==
    LET RECURSIVE loop(_, _)
        loop(t, data) ==
            LET key == VM_current(t).value
                a == VM_advance(t)
                \* a key and a colon: an entry; any other token is skipped
                entry == VM_current(t).type = "WORD" /\ VM_current(a).type = "COLON"
                skip(v) == IF entry THEN v ELSE Return(a, NoneV)
            IN  IF VM_current(t).type = "RBRACE" THEN Return(VM_advance(t), MapV(data))
                ELSE IF VM_at_end(t) THEN KapilaError(t, <<"Unterminated map">>)
                ELSE Try(skip(self_parse_expr(VM_advance(a))), LAMBDA value :
                         loop(value, IF entry THEN DictSet(data, key, value.ret)
                                     ELSE data))
    IN  loop(VM_advance(s), EmptyDict)

\* a definition that starts the dictionary afresh
VM_define_word_fresh(s) ==
    LET name == VM_current(s).value
        RECURSIVE loop(_, _)
        loop(t, body) ==
            IF VM_current(t).type \in {"DEF_END", "EOF"} THEN [vm |-> t, body |-> body]
            ELSE loop(VM_advance(t), Append(body, VM_current(t)))
        r == loop(VM_advance(VM_advance(s)), <<>>)
        t1 == IF VM_current(r.vm).type = "DEF_END" THEN VM_advance(r.vm) ELSE r.vm
    IN  [t1 EXCEPT !.words = DictSet(EmptyDict, name, BlockV(r.body, <<>>, <<>>))]

VM_define_word(s) ==
    LET name == VM_current(s).value
        RECURSIVE loop(_, _)
        loop(t, body) ==
            IF VM_current(t).type \in {"DEF_END", "EOF"} THEN [vm |-> t, body |-> body]
            ELSE loop(VM_advance(t), Append(body, VM_current(t)))
        r == loop(VM_advance(VM_advance(s)), <<>>)
        t1 == IF VM_current(r.vm).type = "DEF_END" THEN VM_advance(r.vm) ELSE r.vm
    IN  [t1 EXCEPT !.words = DictSet(@, name, BlockV(r.body, <<>>, <<>>))]

VM_assignment(s) ==
    Try(self_parse_expr(VM_advance(VM_advance(s))), LAMBDA value :
        LET t1 == [value EXCEPT !.variables = DictSet(@, VM_current(s).value, value.ret)]
        IN  IF VM_current(t1).type = "DOT" THEN VM_advance(t1) ELSE t1)

VM_expression_and_actions(s) ==
    LET \* the value a block or a map literal leaves is pushed
        push(r) == Try(r, LAMBDA v : VM_push(v, v.ret))
        RECURSIVE actions(_)
        actions(t) ==
            LET token == VM_current(t)
                a == VM_advance(t)
            IN  IF ~Ok(t) \/ VM_at_end(t) THEN t
                ELSE IF token.type = "DOT" THEN a
                ELSE IF token.type \in {"DEF_END", "RBRACKET", "EOF"} THEN t
                ELSE IF token.type \notin
                            {"NUMBER", "STRING", "WORD", "QUOTE", "LBRACKET", "LBRACE",
                             "PLUS", "MINUS", "STAR", "SLASH", "PERCENT"} THEN t
                ELSE actions(
                    CASE token.type \in {"NUMBER", "STRING"} -> VM_push(a, token.literal)
                      [] token.type = "WORD" -> self_execute_word(a, token.value)
                      [] token.type = "QUOTE" ->
                            IF VM_current(a).type = "WORD"
                            THEN VM_push(VM_advance(a), StrV(VM_current(a).value))
                            ELSE a
                      [] token.type = "LBRACKET" -> push(self_parse_block(t))
                      [] token.type = "LBRACE" -> push(self_parse_map(t))
                      [] OTHER -> self_execute_token(a, token))
    IN  Try(self_parse_expr(s), LAMBDA value :
            actions(IF value.ret.t # "none" THEN VM_push(value, value.ret) ELSE value))

VM_toplevel_statement(s) ==
    LET token == VM_current(s)
    IN  IF token.type = "WORD" /\ VM_peek_type(s, 1) = "COLON" THEN VM_define_word(s)
        ELSE IF token.type = "WORD" /\ VM_peek_type(s, 1) = "ASSIGN" THEN VM_assignment(s)
        ELSE VM_expression_and_actions(s)

\* tokenize(source) is Lexer(source).scan_all() as one call: [exc, tokens]
tokenize(source) ==
    LET RECURSIVE loop(_, _)
        loop(lx, toks) ==
            LET next(r) ==
                    IF r.exc # "none" THEN [exc |-> r.exc, tokens |-> toks]
                    ELSE IF r.tok.type = "EOF"
                    THEN [exc |-> "none", tokens |-> Append(toks, r.tok)]
                    ELSE loop(r.lx, Append(toks, r.tok))
            IN  next(Lexer_next_token(lx))
    IN  loop(Lexer(source), <<>>)

\* a statement that consumes no token leaves the loop where it was: the
\* call never returns (hang)
VM_run_toplevel(s, tokens_) ==
    LET RECURSIVE loop(_)
        loop(t) ==
            IF VM_at_end(t)
            THEN Return(t, IF t.stack = <<>> THEN NoneV ELSE t.stack[Len(t.stack)])
            ELSE Try(self_toplevel_statement(t), LAMBDA n :
                     IF n.pos = t.pos THEN [n EXCEPT !.hang = TRUE] ELSE loop(n))
    IN  loop([s EXCEPT !.tokens = tokens_, !.pos = 0])

VM_call(method, s, x) ==
    CASE method = "_run_block" -> VM_run_block(s, x)
      [] method = "_parse_expr" -> VM_parse_expr(s)
      [] method = "_execute_word" -> VM_execute_word(s, x)
      [] method = "_execute_token" -> VM_execute_token(s, x)
      [] method = "builtins" -> CallBuiltin(s, x)
      [] method = "_parse_block" -> VM_parse_block(s)
      [] method = "_parse_map" -> VM_parse_map(s)
      [] method = "_parse_unary" -> VM_parse_unary(s)
      [] method = "_parse_list_or_block" -> VM_parse_list_or_block(s)
      [] method = "_toplevel_statement" -> VM_toplevel_statement(s)
      [] method = "run" -> VM_run_toplevel(s, x)

\* the VM as a call of run finds it: no exception in flight, nothing recorded
Started(s) ==
    [s EXCEPT !.err = NoErr, !.ret = NoneV, !.depth = 0, !.printed = <<>>,
              !.hang = FALSE, !.hist = NoHist]

\* tokens = tokenize(source), which may raise; then the statements
VM_run_tokens(s, r) ==
    IF r.exc # "none" THEN Raise(s, r.exc, <<>>) ELSE self_run(s, r.tokens)

VM_run(s, source) == VM_run_tokens(Started(s), tokenize(source))

(***************************************************************************)
(* Parser, src/src/parser/parser.py.  The Parser object is the record      *)
(* [tokens, pos, errors]; ret is the value of the call in progress, err    *)
(* the exception it raised.  A loop that appends to a list without moving  *)
(* pos never ends: the call is then left with the pseudo-exception Hang,   *)
(* which nothing catches.  AST nodes are records [node |-> class, ...]     *)
(* without line and column.                                                *)
(***************************************************************************)
Parser(toks) ==
    [tokens |-> toks, pos |-> 0, errors |-> <<>>, ret |-> NoneV, err |-> NoErr]

NoNode == [node |-> "None"]

NumberLit(value) == [node |-> "NumberLit", value |-> value]

StringLit(value) == [node |-> "StringLit", value |-> value]

BoolLit(value) == [node |-> "BoolLit", value |-> value]

Word(name) == [node |-> "Word", name |-> name]

QuotedWord(name) == [node |-> "QuotedWord", name |-> name]

Block(params, body) == [node |-> "Block", params |-> params, body |-> body]

ListLit(elements) == [node |-> "ListLit", elements |-> elements]

MapLit(pairs) == [node |-> "MapLit", pairs |-> pairs]

BinaryExpr(left, op, right) ==
    [node |-> "BinaryExpr", left |-> left, op |-> op, right |-> right]

UnaryExpr(op, operand) == [node |-> "UnaryExpr", op |-> op, operand |-> operand]

Conditional(condition, true_block, false_block) ==
    [node |-> "Conditional", condition |-> condition,
     true_block |-> true_block, false_block |-> false_block]

PostfixAction(value, actions) ==
    [node |-> "PostfixAction", value |-> value, actions |-> actions]

WordDef(name, body) == [node |-> "WordDef", name |-> name, body |-> body]

VarAssign(name, value) == [node |-> "VarAssign", name |-> name, value |-> value]

ExprStmt(expr) == [node |-> "ExprStmt", expr |-> expr]

Parser_peek(p) ==
    IF p.pos >= Len(p.tokens) THEN Token("EOF", <<>>, 0, 0, NoneV) ELSE p.tokens[p.pos + 1]

Parser_at_end(p) == Parser_peek(p).type = "EOF"

Parser_peek_next(p) ==
    IF p.pos + 1 >= Len(p.tokens) THEN Token("EOF", <<>>, 0, 0, NoneV)
    ELSE p.tokens[p.pos + 2]

\* the parser after _advance(); the token it returns is Parser_peek of before
Parser_advance(p) == IF Parser_at_end(p) THEN p ELSE [p EXCEPT !.pos = @ + 1]

Parser_check(p, type) == Parser_peek(p).type = type

\* _match(type): the parser after it; it returns a token when it advanced
Parser_match(p, type) == IF Parser_check(p, type) THEN Parser_advance(p) ELSE p

\* raise ParseError(message, token.line, token.column), token the current one
ParseError(p, message) == Raise(p, "ParseError", [message |-> message, at |-> p.pos])

Parser_expect(p, type, message) ==
    IF Parser_check(p, type) THEN Parser_advance(p) ELSE ParseError(p, message)

Parser_synchronize(p) ==
    LET RECURSIVE loop(_)
        loop(q) ==
            IF Parser_at_end(q) THEN q
            ELSE IF Parser_peek(q).type \in {"DOT", "DEF_END"} THEN Parser_advance(q)
            ELSE IF Parser_peek(q).type = "WORD" /\ Parser_peek_next(q).type = "COLON" THEN q
            ELSE loop(Parser_advance(q))
    IN  loop(Parser_advance(p))

\* self.<method>(): the method is looked up on the parser when the call is
\* made; Parser_call is that lookup, defined after the methods
RECURSIVE Parser_call(_, _)
this_statement(p) == Parser_call("_statement", p)
this_word_def(p) == Parser_call("_word_def", p)
this_var_assign(p) == Parser_call("_var_assign", p)
this_expr_stmt(p) == Parser_call("_expr_stmt", p)
this_expression(p) == Parser_call("_expression", p)
this_ternary(p) == Parser_call("_ternary", p)
this_or(p) == Parser_call("_or", p)
this_and(p) == Parser_call("_and", p)
this_comparison(p) == Parser_call("_comparison", p)
this_additive(p) == Parser_call("_additive", p)
this_multiplicative(p) == Parser_call("_multiplicative", p)
this_unary(p) == Parser_call("_unary", p)
this_primary(p) == Parser_call("_primary", p)
this_block_or_list(p) == Parser_call("_block_or_list", p)
this_block(p) == Parser_call("_block", p)
this_block_body(p) == Parser_call("_block_body", p)
this_list_body(p) == Parser_call("_list_body", p)
this_map(p) == Parser_call("_map", p)
this_parse_body_element(p) == Parser_call("_parse_body_element", p)
this_parse(p) == Parser_call("_parse", p)

Parser_number(p) == Return(Parser_advance(p), NumberLit(Parser_peek(p).literal))

Parser_string(p) == Return(Parser_advance(p), StringLit(Parser_peek(p).literal))

Parser_word(p) == Return(Parser_advance(p), Word(Parser_peek(p).value))

Parser_word_or_bool(p) ==
    LET token == Parser_peek(p)
    IN  IF token.value \in kw_true THEN Return(Parser_advance(p), BoolLit(TRUE))
        ELSE IF token.value \in kw_false THEN Return(Parser_advance(p), BoolLit(FALSE))
        ELSE Parser_word(p)

Parser_quoted_word(p) ==
    LET q == Parser_advance(p)
    IN  IF Parser_check(q, "WORD")
        THEN Return(Parser_advance(q), QuotedWord(Parser_peek(q).value))
        ELSE ParseError(q, "Expected word after quote")

OperatorTypes ==
    {"PLUS", "MINUS", "STAR", "SLASH", "PERCENT", "EQ", "NEQ", "LT", "GT", "LTE", "GTE"}

Parser_parse_body_element(p) ==
    LET token == Parser_peek(p)
    IN  CASE token.type = "NUMBER" -> Parser_number(p)
          [] token.type = "STRING" -> Parser_string(p)
          [] token.type = "WORD" -> Parser_word(p)
          [] token.type = "LBRACKET" -> this_block(p)
          [] token.type = "LBRACE" -> this_map(p)
          [] token.type = "QUOTE" -> Parser_quoted_word(p)
          [] token.type \in OperatorTypes -> Return(Parser_advance(p), Word(token.value))
          \* skip unknown tokens
          [] OTHER -> Return(Parser_advance(p), NoNode)

Parser_block_body(p) ==
    LET \* while self._check(WORD): temp_params.append(...); if self._check(PIPE): ...
        RECURSIVE look(_, _)
        look(q, temp_params) ==
            IF ~Parser_check(q, "WORD") THEN [has_params |-> FALSE, p |-> p, params |-> <<>>]
            ELSE LET a == Parser_advance(q)
                     t == Append(temp_params, Parser_peek(q).value)
                 IN  IF Parser_check(a, "PIPE")
                     THEN [has_params |-> TRUE, p |-> Parser_advance(a), params |-> t]
                     ELSE look(a, t)
        found == look(p, <<>>)
        RECURSIVE loop(_, _)
        loop(q, body) ==
            IF ~Ok(q) THEN q
            ELSE IF Parser_check(q, "RBRACKET") \/ Parser_at_end(q)
            THEN Try(Parser_expect(q, "RBRACKET", "Expected ']'"),
                     LAMBDA e : Return(e, Block(found.params, body)))
            ELSE Try(this_parse_body_element(q), LAMBDA elem :
                     loop(elem, IF elem.ret = NoNode THEN body ELSE Append(body, elem.ret)))
    IN  loop(found.p, <<>>)

Parser_block(p) ==
    Try(Parser_expect(p, "LBRACKET", "Expected '['"), LAMBDA q : this_block_body(q))

\* while ...: elem = self._expression(); elements.append(elem): an
\* expression that leaves pos where it was is parsed again, for ever
Parser_list_body(p) ==
    LET RECURSIVE loop(_, _)
        loop(q, elements) ==
            IF Parser_check(q, "RBRACKET") \/ Parser_at_end(q)
            THEN Try(Parser_expect(q, "RBRACKET", "Expected ']'"),
                     LAMBDA e : Return(e, ListLit(elements)))
            ELSE Try(this_expression(q), LAMBDA elem :
                     IF elem.pos = q.pos THEN Raise(elem, "Hang", <<>>)
                     ELSE loop(elem, Append(elements, elem.ret)))
    IN  loop(p, <<>>)

Parser_block_or_list(p) ==
    LET start == Parser_advance(p)
        \* the scan ahead
        RECURSIVE scan(_, _, _)
        scan(q, depth, is_block) ==
            LET token == Parser_peek(q)
            IN  IF Parser_at_end(q) THEN is_block
                ELSE IF token.type = "LBRACKET" THEN scan(Parser_advance(q), depth + 1, is_block)
                ELSE IF token.type = "RBRACKET"
                THEN IF depth = 1 THEN is_block
                     ELSE scan(Parser_advance(q), depth - 1, is_block)
                ELSE IF token.type = "WORD"
                THEN scan(Parser_advance(q), depth,
                          is_block \/ token.value \notin kw_true \cup kw_false)
                ELSE IF token.type = "PIPE" \/ token.type \in OperatorTypes
                THEN scan(Parser_advance(q), depth, TRUE)
                ELSE scan(Parser_advance(q), depth, is_block)
    IN  IF scan(start, 1, FALSE) THEN this_block_body(start) ELSE this_list_body(start)

Parser_map(p) ==
    LET RECURSIVE loop(_, _)
        loop(q, pairs) ==
            IF Parser_check(q, "RBRACE") \/ Parser_at_end(q)
            THEN Try(Parser_expect(q, "RBRACE", "Expected '}'"),
                     LAMBDA e : Return(e, MapLit(pairs)))
            ELSE IF Parser_check(q, "WORD")
            THEN LET a == Parser_advance(q)
                 IN  IF Parser_check(a, "COLON")
                     THEN Try(this_expression(Parser_advance(a)), LAMBDA value :
                              loop(value, Append(pairs, <<Parser_peek(q).value, value.ret>>)))
                     ELSE loop(a, pairs)
            ELSE loop(Parser_advance(q), pairs)
    IN  loop(Parser_advance(p), <<>>)

Parser_primary(p) ==
    LET token == Parser_peek(p)
    IN  CASE token.type = "NUMBER" -> Parser_number(p)
          [] token.type = "STRING" -> Parser_string(p)
          [] token.type = "WORD" -> Parser_word_or_bool(p)
          [] token.type = "LBRACKET" -> this_block_or_list(p)
          [] token.type = "LBRACE" -> this_map(p)
          [] token.type = "QUOTE" -> Parser_quoted_word(p)
          \* an empty Word, and pos stays where it is
          [] OTHER -> Return(p, Word(<<>>))

Parser_unary(p) ==
    IF Parser_check(p, "MINUS")
    THEN Try(this_unary(Parser_advance(p)), LAMBDA operand :
             Return(operand, UnaryExpr(<<"-">>, operand.ret)))
    ELSE IF Parser_check(p, "WORD") /\ Parser_peek(p).value \in kw_not
    THEN Try(this_unary(Parser_advance(p)), LAMBDA operand :
             Return(operand, UnaryExpr(Parser_peek(p).value, operand.ret)))
    ELSE this_primary(p)

\* left = self._unary(); while ...: left = BinaryExpr(left, op, self._unary())
Parser_multiplicative(p) ==
    LET RECURSIVE loop(_, _, _)
        \* q is the parser before an operand; when op is not empty the operand
        \* is the right one of op, whose left operand is left
        loop(q, left, op) ==
            Try(this_unary(q), LAMBDA operand :
                LET e == IF op = <<>> THEN operand.ret ELSE BinaryExpr(left, op, operand.ret)
                    token == Parser_peek(operand)
                IN  IF token.type \in {"STAR", "SLASH", "PERCENT"}
                    THEN loop(Parser_advance(operand), e, token.value)
                    ELSE Return(operand, e))
    IN  loop(p, NoNode, <<>>)

\* an additive level that builds its trees to the right
Parser_additive_right(p) ==
    LET RECURSIVE loop(_, _, _)
        \* q is the parser before an operand; when op is not empty the operand
        \* is the right one of op, whose left operand is left
        loop(q, left, op) ==
            Try(this_multiplicative(q), LAMBDA operand :
                LET e == IF op = <<>> THEN operand.ret ELSE BinaryExpr(operand.ret, op, left)
                    token == Parser_peek(operand)
                IN  IF token.type \in {"PLUS", "MINUS"}
                    THEN loop(Parser_advance(operand), e, token.value)
                    ELSE Return(operand, e))
    IN  loop(p, NoNode, <<>>)

\* left = self._multiplicative(); while ...
Parser_additive(p) ==
    LET RECURSIVE loop(_, _, _)
        \* q is the parser before an operand; when op is not empty the operand
        \* is the right one of op, whose left operand is left
        loop(q, left, op) ==
            Try(this_multiplicative(q), LAMBDA operand :
                LET e == IF op = <<>> THEN operand.ret ELSE BinaryExpr(left, op, operand.ret)
                    token == Parser_peek(operand)
                IN  IF token.type \in {"PLUS", "MINUS"}
                    THEN loop(Parser_advance(operand), e, token.value)
                    ELSE Return(operand, e))
    IN  loop(p, NoNode, <<>>)

\* op_types in _comparison: the operator a comparison token stands for
op_types ==
    [type \in {"EQ", "NEQ", "LT", "GT", "LTE", "GTE"} |->
        CASE type = "EQ" -> <<"=">>
          [] type = "NEQ" -> <<"!", "=">>
          [] type = "LT" -> <<"<">>
          [] type = "GT" -> <<">">>
          [] type = "LTE" -> <<"<", "=">>
          [] type = "GTE" -> <<">", "=">>]

\* left = self._additive(); while self._peek().type in op_types: ...
Parser_comparison(p) ==
    LET RECURSIVE loop(_, _, _)
        \* q is the parser before an operand; when op is not empty the operand
        \* is the right one of op, whose left operand is left
        loop(q, left, op) ==
            Try(this_additive(q), LAMBDA operand :
                LET e == IF op = <<>> THEN operand.ret ELSE BinaryExpr(left, op, operand.ret)
                    token == Parser_peek(operand)
                IN  IF token.type \in DOMAIN op_types
                    THEN loop(Parser_advance(operand), e, op_types[token.type])
                    ELSE Return(operand, e))
    IN  loop(p, NoNode, <<>>)

\* left = self._comparison(); while ...
Parser_and(p) ==
    LET RECURSIVE loop(_, _, _)
        \* q is the parser before an operand; when op is not empty the operand
        \* is the right one of op, whose left operand is left
        loop(q, left, op) ==
            Try(this_comparison(q), LAMBDA operand :
                LET e == IF op = <<>> THEN operand.ret ELSE BinaryExpr(left, op, operand.ret)
                    token == Parser_peek(operand)
                IN  IF token.type = "WORD" /\ token.value \in kw_and
                    THEN loop(Parser_advance(operand), e, token.value)
                    ELSE Return(operand, e))
    IN  loop(p, NoNode, <<>>)

\* left = self._and(); while ...
Parser_or(p) ==
    LET RECURSIVE loop(_, _, _)
        \* q is the parser before an operand; when op is not empty the operand
        \* is the right one of op, whose left operand is left
        loop(q, left, op) ==
            Try(this_and(q), LAMBDA operand :
                LET e == IF op = <<>> THEN operand.ret ELSE BinaryExpr(left, op, operand.ret)
                    token == Parser_peek(operand)
                IN  IF token.type = "WORD" /\ token.value \in kw_or
                    THEN loop(Parser_advance(operand), e, token.value)
                    ELSE Return(operand, e))
    IN  loop(p, NoNode, <<>>)

Parser_ternary(p) ==
    Try(this_or(p), LAMBDA expr :
        IF ~Parser_check(expr, "QUESTION") THEN expr
        ELSE Try(this_block(Parser_advance(expr)), LAMBDA true_block :
             Try(IF Parser_check(true_block, "LBRACKET") THEN this_block(true_block)
                 ELSE Return(true_block, NoNode), LAMBDA false_block :
                 Return(false_block, Conditional(expr.ret, true_block.ret, false_block.ret)))))

Parser_expression(p) == this_ternary(p)

Parser_expr_stmt(p) ==
    Try(this_expression(p), LAMBDA e :
        LET RECURSIVE loop(_, _)
            loop(q, actions) ==
                IF ~Parser_check(q, "WORD") \/ Parser_at_end(q)
                THEN [p |-> q, actions |-> actions]
                ELSE LET a == Parser_advance(q)
                     IN  IF Parser_check(a, "COLON") \/ Parser_check(a, "ASSIGN")
                         THEN [p |-> q, actions |-> actions]
                         ELSE loop(a, Append(actions, Word(Parser_peek(q).value)))
            r == loop(e, <<>>)
        IN  Return(Parser_match(r.p, "DOT"),
                   ExprStmt(IF r.actions # <<>> THEN PostfixAction(e.ret, r.actions)
                            ELSE e.ret)))

Parser_var_assign(p) ==
    Try(this_expression(Parser_advance(Parser_advance(p))), LAMBDA value :
        Return(Parser_match(value, "DOT"), VarAssign(Parser_peek(p).value, value.ret)))

Parser_word_def(p) ==
    LET RECURSIVE loop(_, _)
        loop(q, body) ==
            IF ~Ok(q) THEN q
            ELSE IF Parser_check(q, "DEF_END") \/ Parser_at_end(q)
            THEN Return(Parser_match(q, "DEF_END"), WordDef(Parser_peek(p).value, body))
            ELSE Try(this_parse_body_element(q), LAMBDA elem :
                     loop(elem, IF elem.ret = NoNode THEN body ELSE Append(body, elem.ret)))
    IN  loop(Parser_advance(Parser_advance(p)), <<>>)

Parser_statement(p) ==
    LET token == Parser_peek(p)
    IN  IF token.type = "WORD" /\ Parser_peek_next(p).type = "COLON" THEN this_word_def(p)
        ELSE IF token.type = "WORD" /\ Parser_peek_next(p).type = "ASSIGN"
        THEN this_var_assign(p)
        ELSE this_expr_stmt(p)

\* Parser.parse: it returns Program(statements); a statement that leaves pos
\* where it was is parsed again, for ever
Parser_parse(p) ==
    LET RECURSIVE loop(_, _)
        loop(q, statements) ==
            IF Parser_at_end(q) THEN Return(q, statements)
            ELSE LET stmt == this_statement(q)
                 IN  IF stmt.err.kind = "ParseError"
                     THEN loop(Parser_synchronize(
                                   [stmt EXCEPT !.err = NoErr,
                                                !.errors = Append(@, stmt.err.msg)]),
                               statements)
                     ELSE IF ~Ok(stmt) THEN stmt
                     ELSE IF stmt.pos = q.pos THEN Raise(stmt, "Hang", <<>>)
                     ELSE loop(stmt, Append(statements, stmt.ret))
    IN  loop(p, <<>>)

Parser_call(method, p) ==
    CASE method = "_statement" -> Parser_statement(p)
      [] method = "_word_def" -> Parser_word_def(p)
      [] method = "_var_assign" -> Parser_var_assign(p)
      [] method = "_expr_stmt" -> Parser_expr_stmt(p)
      [] method = "_expression" -> Parser_expression(p)
      [] method = "_ternary" -> Parser_ternary(p)
      [] method = "_or" -> Parser_or(p)
      [] method = "_and" -> Parser_and(p)
      [] method = "_comparison" -> Parser_comparison(p)
      [] method = "_additive" -> Parser_additive(p)
      [] method = "_multiplicative" -> Parser_multiplicative(p)
      [] method = "_unary" -> Parser_unary(p)
      [] method = "_primary" -> Parser_primary(p)
      [] method = "_block_or_list" -> Parser_block_or_list(p)
      [] method = "_block" -> Parser_block(p)
      [] method = "_block_body" -> Parser_block_body(p)
      [] method = "_list_body" -> Parser_list_body(p)
      [] method = "_map" -> Parser_map(p)
      [] method = "_parse_body_element" -> Parser_parse_body_element(p)
      [] method = "_parse" -> Parser_parse(p)

\* parse(source): tokens = tokenize(source); Parser(tokens).parse()
parse_tokens(r) ==
    IF r.exc # "none" THEN Raise(Parser(<<>>), r.exc, <<>>) ELSE this_parse(Parser(r.tokens))

parse(source) == parse_tokens(tokenize(source))

(***************************************************************************)
(* The drivers, src/src/repl.py.  One step of a session is one iteration   *)
(* of repl's loop on a line that is not blank: a command, or vm.run(line)  *)
(* inside its try/except.  run_file is one step: the VM is constructed,    *)
(* the whole source is run, the handler prints and the process exits.      *)
(* pc is where the driver is: "repl" (waiting for a line), "file"          *)
(* (run_file about to start), "exited" (the process ended, with exit       *)
(* status status), "hung" (vm.run never returns).  console is what the     *)
(* step's handler printed first: "" nothing, "->" the top of the stack,    *)
(* "dosha:" the error marker and the KapilaError's message, "Error:" the   *)
(* other exceptions' message in the session, "Traceback" the host's report *)
(* of an exception nothing caught.  pre is the VM before the step and      *)
(* input the step's command and text.                                      *)
(***************************************************************************)
\* the lines a session types and the lines of a file, as code points
Lines ==
    <<
        \* 1: 1
        <<"1">>,
        \* 2: 2 3
        <<"2", "SP", "3">>,
        \* 3: drop
        <<"d", "r", "o", "p">>,
        \* 4: dup
        <<"d", "u", "p">>,
        \* 5: swap
        <<"s", "w", "a", "p">>,
        \* 6: 1 2 +
        <<"1", "SP", "2", "SP", "+">>,
        \* 7: dup +
        <<"d", "u", "p", "SP", "+">>,
        \* 8: "a" + 1
        <<"DQUOTE", "a", "DQUOTE", "SP", "+", "SP", "1">>,
        \* 9: "a" 1 +
        <<"DQUOTE", "a", "DQUOTE", "SP", "1", "SP", "+">>,
        \* 10: 1 / 0
        <<"1", "SP", "/", "SP", "0">>,
        \* 11: 7 0 %
        <<"7", "SP", "0", "SP", "%">>,
        \* 12: 5 ? [ 1 ] [ 2 ]
        <<"5", "SP", "?", "SP", "[", "SP", "1", "SP", "]", "SP", "[", "SP", "2", "SP", "]">>,
        \* 13: true ? [ 1 ] [ 2 ]
        <<"t", "r", "u", "e", "SP", "?", "SP", "[", "SP", "1", "SP", "]", "SP", "[", "SP", "2", "SP", "]">>,
        \* 14: false ? [ 1 ] [ 2 ]
        <<"f", "a", "l", "s", "e", "SP", "?", "SP", "[", "SP", "1", "SP", "]", "SP", "[", "SP", "2", "SP", "]">>,
        \* 15: true ? [ drop ]
        <<"t", "r", "u", "e", "SP", "?", "SP", "[", "SP", "d", "r", "o", "p", "SP", "]">>,
        \* 16: 5 and 3
        <<"5", "SP", "a", "n", "d", "SP", "3">>,
        \* 17: true and false
        <<"t", "r", "u", "e", "SP", "a", "n", "d", "SP", "f", "a", "l", "s", "e">>,
        \* 18: 0 or 2
        <<"0", "SP", "o", "r", "SP", "2">>,
        \* 19: not 0
        <<"n", "o", "t", "SP", "0">>,
        \* 20: 1 2 and
        <<"1", "SP", "2", "SP", "a", "n", "d">>,
        \* 21: "a" not
        <<"DQUOTE", "a", "DQUOTE", "SP", "n", "o", "t">>,
        \* 22: x := 5.
        <<"x", "SP", ":", "=", "SP", "5", ".">>,
        \* 23: x
        <<"x">>,
        \* 24: dup := 7.
        <<"d", "u", "p", "SP", ":", "=", "SP", "7", ".">>,
        \* 25: 1 dup
        <<"1", "SP", "d", "u", "p">>,
        \* 26: true ? [ dup ]
        <<"t", "r", "u", "e", "SP", "?", "SP", "[", "SP", "d", "u", "p", "SP", "]">>,
        \* 27: 1 2 [ x y | x ] do
        <<"1", "SP", "2", "SP", "[", "SP", "x", "SP", "y", "SP", "|", "SP", "x", "SP", "]", "SP", "d", "o">>,
        \* 28: 1 2 [ x | x ] do
        <<"1", "SP", "2", "SP", "[", "SP", "x", "SP", "|", "SP", "x", "SP", "]", "SP", "d", "o">>,
        \* 29: x := true ? [ ]
        <<"x", "SP", ":", "=", "SP", "t", "r", "u", "e", "SP", "?", "SP", "[", "SP", "]">>,
        \* 30: 5 [ x | ] do
        <<"5", "SP", "[", "SP", "x", "SP", "|", "SP", "]", "SP", "d", "o">>,
        \* 31: 5 [ dup | dup ] do
        <<"5", "SP", "[", "SP", "d", "u", "p", "SP", "|", "SP", "d", "u", "p", "SP", "]", "SP", "d", "o">>,
        \* 32: sq: dup * <U+0965>
        <<"s", "q", ":", "SP", "d", "u", "p", "SP", "*", "SP", "U0965">>,
        \* 33: 3 sq
        <<"3", "SP", "s", "q">>,
        \* 34: [ 1 2 ] [ dup * ] map
        <<"[", "SP", "1", "SP", "2", "SP", "]", "SP", "[", "SP", "d", "u", "p", "SP", "*", "SP", "]", "SP", "m", "a", "p">>,
        \* 35: f: f <U+0965>
        <<"f", ":", "SP", "f", "SP", "U0965">>,
        \* 36: f
        <<"f">>,
        \* 37: ]
        <<"]">>,
        \* 38: "a
        <<"DQUOTE", "a">>,
        \* 39: <U+00B2>
        <<"U00B2">>,
        \* 40: 'dup
        <<"'", "d", "u", "p">>,
        \* 41: do
        <<"d", "o">>,
        \* 42: { a: 1 }
        <<"{", "SP", "a", ":", "SP", "1", "SP", "}">>,
        \* 43: 1 <U+0CA8><U+0CBF><U+0C9C>
        <<"1", "SP", "U0CA8", "U0CBF", "U0C9C">>,
        \* 44: <U+0CE9> <U+0CA8><U+0C95><U+0CB2><U+0CC1> *
        <<"U0CE9", "SP", "U0CA8", "U0C95", "U0CB2", "U0CC1", "SP", "*">>,
        \* 45: 2 [ 1 ] times
        <<"2", "SP", "[", "SP", "1", "SP", "]", "SP", "t", "i", "m", "e", "s">>,
        \* 46: square: dup * <U+0965>
        <<"s", "q", "u", "a", "r", "e", ":", "SP", "d", "u", "p", "SP", "*", "SP", "U0965">>,
        \* 47: <U+0CEB> square
        <<"U0CEB", "SP", "s", "q", "u", "a", "r", "e">>,
        \* 48: square: dup + <U+0965> <U+0CEB> square
        <<"s", "q", "u", "a", "r", "e", ":", "SP", "d", "u", "p", "SP", "+", "SP", "U0965", "SP", "U0CEB", "SP", "s", "q", "u", "a", "r", "e">>
    >>

MaxLines == 2

NoInput == [op |-> "none", text |-> <<>>]

\* the files: the sources of at most MaxLines lines
Files ==
    LET RECURSIVE Programs(_)
        Programs(n) ==
            IF n = 1 THEN {Lines[i] : i \in 1..Len(Lines)}
            ELSE Programs(n - 1) \cup
                 {p \o <<"NL">> \o Lines[i] : p \in Programs(n - 1), i \in 1..Len(Lines)}
    IN  Programs(MaxLines)

\* what the session's handlers print first after vm.run(line)
ReplConsole(r) ==
    CASE r.hang -> ""
      [] r.err.kind = "KapilaError" -> "dosha:"
      [] r.err.kind # "none" -> "Error:"
      [] r.stack # <<>> -> "->"
      [] OTHER -> ""

\* try: vm.run(line) ... except KapilaError ... except Exception
repl_execute(line) ==
    /\ pc = "repl"
    /\ nlines < MaxLines
    /\ vm' = VM_run(vm, line)
    /\ pc' = IF vm'.hang THEN "hung" ELSE "repl"
    /\ console' = ReplConsole(vm')
    /\ pre' = vm
    /\ input' = [op |-> "execute", text |-> line]
    /\ nlines' = nlines + 1
    /\ UNCHANGED <<status, probe>>
    /\ UNCHANGED lexvars
    /\ UNCHANGED parsevars
    /\ UNCHANGED callvars

\* the command clear: vm.stack.clear()
repl_clear ==
    /\ pc = "repl"
    /\ vm' = [vm EXCEPT !.stack = <<>>]
    /\ console' = "Stack cleared"
    /\ pre' = vm
    /\ input' = [op |-> "clear", text |-> <<"c", "l", "e", "a", "r">>]
    /\ UNCHANGED <<pc, nlines, status, probe>>
    /\ UNCHANGED lexvars
    /\ UNCHANGED parsevars
    /\ UNCHANGED callvars

\* the command exit
repl_exit ==
    /\ pc = "repl"
    /\ pc' = "exited"
    /\ status' = 0
    /\ console' = ""
    /\ pre' = vm
    /\ input' = [op |-> "exit", text |-> <<"e", "x", "i", "t">>]
    /\ UNCHANGED <<vm, nlines, probe>>
    /\ UNCHANGED lexvars
    /\ UNCHANGED parsevars
    /\ UNCHANGED callvars

\* vm = VM(); try: vm.run(source) except KapilaError: print, sys.exit(1).
\* An exception that is no KapilaError leaves run_file uncaught: the host
\* prints its traceback and the process ends with status 1
run_file(source) ==
    /\ pc = "file"
    /\ vm' = VM_run(VM, source)
    /\ pc' = IF vm'.hang THEN "hung" ELSE "exited"
    /\ console' = CASE vm'.hang -> ""
                    [] vm'.err.kind = "KapilaError" -> "dosha:"
                    [] vm'.err.kind # "none" -> "Traceback"
                    [] OTHER -> ""
    /\ status' = CASE vm'.hang -> status
                   [] vm'.err.kind # "none" -> 1
                   [] OTHER -> 0
    /\ pre' = vm
    /\ input' = [op |-> "file", text |-> source]
    /\ UNCHANGED <<nlines, probe>>
    /\ UNCHANGED lexvars
    /\ UNCHANGED parsevars
    /\ UNCHANGED callvars

\* the part of the state an execution of the lexer alone, or of the VM
\* alone, leaves as constructed
LexIdle == lexer = Lexer(<<>>) /\ tokens = <<>> /\ lexpc = "idle"

ParseIdle == parser = Parser(<<>>) /\ psource = <<>> /\ parsepc = "idle"

\* no library function has been called
NoCall == [fn |-> "none", args |-> <<>>, pc |-> "idle", ret |-> NoneV]

CallIdle == libcall = NoCall

VmIdle ==
    /\ vm = VM
    /\ pre = VM
    /\ pc = "idle"
    /\ console = ""
    /\ input = NoInput
    /\ nlines = 0
    /\ status = -1
    /\ probe = [word |-> <<>>, position |-> "none"]

Init ==
    /\ LexIdle
    /\ ParseIdle
    /\ CallIdle
    /\ vm = VM
    /\ pre = VM
    /\ pc \in {"repl", "file"}
    /\ console = ""
    /\ input = NoInput
    /\ nlines = 0
    /\ status = -1
    /\ probe = [word |-> <<>>, position |-> "none"]

Next ==
    \/ \E i \in 1..Len(Lines) : repl_execute(Lines[i])
    \/ repl_clear
    \/ repl_exit
    \/ \E source \in Files : run_file(source)

Spec == Init /\ [][Next]_vars

(***************************************************************************)
(* Word lookup.  A session prepares the VM with at most MaxSetup lines and *)
(* then executes one line that looks one word up: as a top-level postfix   *)
(* action ("1 w"), in block mode ("true ? [ w ]"), or in block mode under  *)
(* a parameter of its own name ("[ w | w ] do").  probe is the word and    *)
(* the position; pc is "probed" after the lookup.                          *)
(***************************************************************************)
\* the lines that prepare the VM for a lookup: values on the stack, a variable
\* and a user word named like a built-in, a variable and a user word of one
\* name, a variable named like a boolean keyword
SetupLines ==
    <<
        \* 1: 1
        <<"1">>,
        \* 2: [ 1 2 ]
        <<"[", "SP", "1", "SP", "2", "SP", "]">>,
        \* 3: dup := 7.
        <<"d", "u", "p", "SP", ":", "=", "SP", "7", ".">>,
        \* 4: dup: 2 <U+0965>
        <<"d", "u", "p", ":", "SP", "2", "SP", "U0965">>,
        \* 5: sq := 9.
        <<"s", "q", "SP", ":", "=", "SP", "9", ".">>,
        \* 6: sq: 3 <U+0965>
        <<"s", "q", ":", "SP", "3", "SP", "U0965">>,
        \* 7: <U+0CA8><U+0CBF><U+0C9C> := 4.
        <<"U0CA8", "U0CBF", "U0C9C", "SP", ":", "=", "SP", "4", ".">>
    >>

MaxSetup == 2

\* the words of the vocabulary, their English equivalents, the boolean
\* words, the built-in names and one name nothing defines: those the lexer
\* reads as one WORD token
\* the lexer reads w as the one token WORD(w), before EOF
OneWord(w, t) ==
    /\ t.exc = "none"
    /\ Len(t.tokens) = 2
    /\ t.tokens[1].type = "WORD"
    /\ t.tokens[1].value = w

ProbeWords ==
    LET names ==
            {VOCABULARY[i][1] : i \in 1..Len(VOCABULARY)}
            \cup {VOCABULARY[i][2] : i \in 1..Len(VOCABULARY)}
            \cup {BOOLEAN_WORDS[i][1] : i \in 1..Len(BOOLEAN_WORDS)}
            \cup CoreNames
            \cup {<<"z", "z">>, <<"s", "q">>}
    IN  {w \in names : OneWord(w, tokenize(w))}

\* the operator tokens _execute_token handles, by their lexemes
ProbeOps ==
    {<<"+">>, <<"-">>, <<"*">>, <<"/">>, <<"%">>, <<"=">>, <<"<">>, <<">">>,
     <<"<", "=">>, <<">", "=">>, <<"!", "=">>}

Probes ==
    (ProbeWords \X {"postfix", "block", "param", "quote", "blockquote", "wordquote"})
    \cup (ProbeOps \X {"block"})

ProbeSource(w, position) ==
    CASE position = "postfix" -> <<"1", "SP">> \o w
      [] position = "block" -> <<"t", "r", "u", "e", "SP", "?", "SP", "[", "SP">> \o w \o <<"SP", "]">>
      [] position = "param" -> <<"[", "SP">> \o w \o <<"SP", "|", "SP">> \o w
                                   \o <<"SP", "]", "SP", "d", "o">>
      \* 1 'w
      [] position = "quote" -> <<"1", "SP", "'">> \o w
      \* true ? [ 'w ]
      [] position = "blockquote" ->
            <<"t", "r", "u", "e", "SP", "?", "SP", "[", "SP", "'">> \o w \o <<"SP", "]">>
      \* q: 'w <U+0965> q
      [] position = "wordquote" ->
            <<"q", ":", "SP", "'">> \o w \o <<"SP", "U0965", "SP", "q">>

repl_setup(line) ==
    /\ nlines < MaxSetup
    /\ pc = "repl"
    /\ vm' = VM_run(vm, line)
    /\ pc' = IF vm'.hang THEN "hung" ELSE "repl"
    /\ console' = ReplConsole(vm')
    /\ pre' = vm
    /\ input' = [op |-> "execute", text |-> line]
    /\ nlines' = nlines + 1
    /\ UNCHANGED <<status, probe>>
    /\ UNCHANGED lexvars
    /\ UNCHANGED parsevars
    /\ UNCHANGED callvars

repl_probe(w, position) ==
    /\ pc = "repl"
    /\ vm' = VM_run(vm, ProbeSource(w, position))
    /\ pc' = IF vm'.hang THEN "hung" ELSE "probed"
    /\ console' = ReplConsole(vm')
    /\ pre' = vm
    /\ input' = [op |-> "execute", text |-> ProbeSource(w, position)]
    /\ probe' = [word |-> w, position |-> position]
    /\ UNCHANGED <<nlines, status>>
    /\ UNCHANGED lexvars
    /\ UNCHANGED parsevars
    /\ UNCHANGED callvars

InitWord ==
    /\ LexIdle
    /\ ParseIdle
    /\ CallIdle
    /\ vm = VM
    /\ pre = VM
    /\ pc = "repl"
    /\ console = ""
    /\ input = NoInput
    /\ nlines = 0
    /\ status = -1
    /\ probe = [word |-> <<>>, position |-> "none"]

NextWord ==
    \/ \E i \in 1..Len(SetupLines) : repl_setup(SetupLines[i])
    \/ \E p \in Probes : repl_probe(p[1], p[2])

SpecWord == InitWord /\ [][NextWord]_vars

(***************************************************************************)
(* tokenize / Lexer.scan_all: one step is one iteration of scan_all's      *)
(* loop, a whole call of next_token.                                       *)
(***************************************************************************)
MaxSrcLen == 3

\* the code points sources are drawn from: a letter, an ASCII and a Kannada
\* digit, a digit that is no decimal digit, the characters that open strings,
\* escapes, comments and two-character tokens, white space, and a character
\* no rule accepts
LexAlphabet ==
    {"a", "1", "U0CE8", "U00B2", ".", "DQUOTE", "BSLASH", "SP", "NL", "/", "*", ":", "=", "@"}

Sources == UNION {[1..n -> LexAlphabet] : n \in 0..MaxSrcLen}

scan_all_step ==
    /\ lexpc = "scan"
    /\ LET r == Lexer_next_token(lexer)
       IN  /\ lexer' = r.lx
           /\ IF r.exc # "none"
              THEN lexpc' = "raised" /\ UNCHANGED tokens
              ELSE /\ tokens' = Append(tokens, r.tok)
                   /\ lexpc' = IF r.tok.type = "EOF" THEN "done" ELSE "scan"
    /\ UNCHANGED vmvars
    /\ UNCHANGED parsevars
    /\ UNCHANGED callvars

InitLex ==
    /\ \E source \in Sources : lexer = Lexer(source)
    /\ tokens = <<>>
    /\ lexpc = "scan"
    /\ VmIdle
    /\ ParseIdle
    /\ CallIdle

NextLex == scan_all_step

SpecLex == InitLex /\ [][NextLex]_vars

\* C1: for every source, scan_all returns, and the list it returns ends with
\* an EOF token and holds no other EOF token.
C1_ScanAllReturnsListEndingInOneEOF ==
    lexpc # "scan" =>
        /\ lexpc = "done"
        /\ tokens # <<>>
        /\ tokens[Len(tokens)].type = "EOF"
        /\ \A i \in 1..(Len(tokens) - 1) : tokens[i].type # "EOF"

\* C2: tokenize never raises a host exception.
C2_TokenizeNeverRaises == lexpc # "raised"

\* each call of next_token that does not return EOF consumes a character
LexProgress == [][lexpc' # "done" => lexer'.pos > lexer.pos]_lexvars

\* scan_all has returned a well-formed list
LexReturned ==
    lexpc = "done" =>
        /\ tokens[Len(tokens)].type = "EOF"
        /\ \A i \in 1..(Len(tokens) - 1) : tokens[i].type # "EOF"

(***************************************************************************)
(* The interpreter's error handling and block invocation.                  *)
(***************************************************************************)
\* a probe: the last step ran ProbeSource(w, position)
Probed(w, position) ==
    pc \in {"probed", "hung"} /\ probe = [word |-> w, position |-> position]

\* C3: a pop attempted on an empty operand stack, by a built-in word or by an
\* operator token of a block, ends the run with KapilaError "Stack
\* underflow": the run returns no value and the session prints the error.
C3_UnderflowRaises ==
    vm.hist.underflow =>
        /\ vm.err = [kind |-> "KapilaError", msg |-> <<"Stack underflow">>]
        /\ ~vm.hang
        /\ console = "dosha:"

\* drop in a block run on the empty stack has underflowed
C3_Witness ==
    /\ Probed(<<"d", "r", "o", "p">>, "block")
    /\ pre.stack = <<>>
    /\ vm.hist.underflow

\* C4: a file whose run ends with a type mismatch in an operator or a
\* division or modulo by zero is reported like stack underflow: the error
\* is the VM's KapilaError, run_file prints the error marker and exits 1.
C4_HostErrorsAreKapilaErrors ==
    (input.op = "file" /\ vm.err.kind \in {"TypeError", "ZeroDivisionError"}) =>
        /\ vm.err.kind = "KapilaError"
        /\ console = "dosha:"
        /\ status = 1

\* C5: when the condition of ? or an operand of and, or, not is tested and
\* is no boolean, the run ends with KapilaError.
C5_NonBooleanConditionRaises ==
    vm.hist.nonbool => vm.err.kind = "KapilaError"

\* C6: a block declared with parameters p1 .. pn and invoked on a stack of at
\* least n values pops exactly n values and binds pn to the top, p1 to the
\* n-th value from the top.
C6_ParametersBoundFromTop ==
    \A k \in 1..Len(vm.hist.binds) :
        LET b == vm.hist.binds[k]
            n == Len(b.declared)
            m == Len(b.stack0)
        IN  n <= m =>
                /\ b.stack1 = SubSeq(b.stack0, 1, m - n)
                /\ \A i \in 1..n :
                      (\A j \in (i + 1)..n : b.declared[j] # b.declared[i]) =>
                          /\ b.declared[i] \in DOMAIN b.variables
                          /\ b.variables[b.declared[i]] = b.stack0[m - n + i]

\* C7: after a block invocation that completes normally every variable has
\* the binding it had before the invocation, and an unbound name is unbound.
C7_VariablesRestored ==
    \A k \in 1..Len(vm.hist.rets) : vm.hist.rets[k].after = vm.hist.rets[k].before

(***************************************************************************)
(* Word lookup.  A probe runs one word w in a prepared session: as the     *)
(* top-level postfix action of "1 w", as the body of the block of          *)
(* "true ? [ w ]", or as the parameter and the body of "[ w | w ] do".     *)
(***************************************************************************)
\* stack and exception of the outcome r are those of the expected outcome e
SameOutcome(r, e) == r.stack = e.stack /\ r.err = e.err /\ r.hang = e.hang

Unknown(s, w) == KapilaError(s, <<"Unknown word: ">> \o w)

\* the lookup order of _execute_token: keyword, variable, built-in, user word
BlockLookup(s, w) ==
    IF w \in kw_true THEN VM_push(s, BoolV(TRUE))
    ELSE IF w \in kw_false THEN VM_push(s, BoolV(FALSE))
    ELSE IF w \in DOMAIN s.variables THEN VM_push(s, s.variables[w])
    ELSE IF w \in DOMAIN BUILTINS THEN CallBuiltin(s, w)
    ELSE IF w \in DOMAIN s.words THEN VM_run_block(s, s.words[w])
    ELSE Unknown(s, w)

\* the lookup order the postfix mode is described with: built-in, user
\* word, variable
PostfixLookup(s, w) ==
    IF w \in DOMAIN BUILTINS THEN CallBuiltin(s, w)
    ELSE IF w \in DOMAIN s.words THEN VM_run_block(s, s.words[w])
    ELSE IF w \in DOMAIN s.variables THEN VM_push(s, s.variables[w])
    ELSE Unknown(s, w)

\* C8: a word in a block is resolved as boolean keyword, then variable, then
\* built-in, then user word, else KapilaError "Unknown word"; a block
\* parameter named like a built-in or a user word shadows it.
C8_BlockLookupOrder ==
    /\ \A w \in ProbeWords :
          Probed(w, "block") => SameOutcome(vm, BlockLookup(Started(pre), w))
    /\ \A w \in ProbeWords \ (kw_true \cup kw_false) :
          (/\ Probed(w, "param")
           /\ w \in DOMAIN BUILTINS \cup DOMAIN pre.words
           /\ pre.stack # <<>>) =>
              /\ Ok(vm)
              /\ vm.stack = pre.stack
              /\ vm.variables = pre.variables

\* dup, a variable and a built-in, was looked up in a block: the variable
C8_Witness ==
    /\ Probed(<<"d", "u", "p">>, "block")
    /\ <<"d", "u", "p">> \in DOMAIN pre.variables
    /\ pre.stack # <<>>
    /\ vm.stack = Append(pre.stack, pre.variables[<<"d", "u", "p">>])

\* C9: a word that is no keyword, executed as a top-level postfix action or
\* in a block, is looked up as built-in, then user word, then variable, the
\* same in both positions.
C9_PostfixLookupOrder ==
    \A w \in ProbeWords \ (kw_true \cup kw_false \cup kw_and \cup kw_or \cup kw_not) :
        /\ Probed(w, "postfix") =>
              SameOutcome(vm, PostfixLookup(VM_push(Started(pre), IntV(1)), w))
        /\ Probed(w, "block") =>
              SameOutcome(vm, PostfixLookup(Started(pre), w))

\* the words BOOLEAN_WORDS gives the boolean b
BooleanWords(b) ==
    {BOOLEAN_WORDS[i][1] : i \in {j \in 1..Len(BOOLEAN_WORDS) : BOOLEAN_WORDS[j][2] = b}}

\* the stack a probe of w starts from
ProbeStack(position) ==
    IF position \in {"postfix", "quote"} THEN Append(pre.stack, IntV(1)) ELSE pre.stack

\* C10: a Kannada word of the vocabulary behaves, as a top-level postfix
\* action and in a block, like its English counterpart, and every word of
\* BOOLEAN_WORDS pushes its boolean and is never an unknown word.
C10_VocabularyResolves ==
    \A position \in {"postfix", "block"} :
        /\ \A b \in BOOLEAN : \A w \in BooleanWords(b) \cap ProbeWords :
              (Probed(w, position) /\ w \notin DOMAIN pre.variables \cup DOMAIN pre.words) =>
                  /\ Ok(vm)
                  /\ vm.stack = Append(ProbeStack(position), BoolV(b))
        /\ \A i \in 1..Len(VOCABULARY) :
              LET kn == VOCABULARY[i][1]
                  en == VOCABULARY[i][2]
              IN  (/\ Probed(kn, position)
                   /\ en \in ProbeWords
                   /\ {kn, en} \cap (DOMAIN pre.variables \cup DOMAIN pre.words) = {})
                  => LET e == VM_run(pre, ProbeSource(en, position))
                     IN  vm.stack = e.stack /\ vm.err.kind = e.err.kind

\* C11: a quote followed by a word w pushes exactly one value, the symbol
\* of name w, and does not invoke w: as a top-level postfix action, in a
\* block run in block mode and in the body of a user word.
C11_QuotePushesSymbol ==
    \A position \in {"quote", "blockquote", "wordquote"} : \A w \in ProbeWords :
        Probed(w, position) =>
            /\ Ok(vm)
            /\ vm.stack = Append(ProbeStack(position), StrV(w))
            /\ vm.variables = pre.variables
            /\ vm.printed = <<>>

(***************************************************************************)
(* Evaluation of one line on a prepared stack.  The session has pushed the *)
(* values of a stack of at most MaxStack literals; the step runs the line  *)
(* of a program: vm.run(line) inside repl's try/except.  input is the      *)
(* program, pre the VM before the step.                                    *)
(***************************************************************************)
MaxStack == 4

\* the values the session has pushed
StackValues == {IntV(1), IntV(2), StrV(<<"a">>)}

Stacks == UNION {[1..n -> StackValues] : n \in 0..MaxStack}

RECURSIVE JoinWords(_)
\* the words of a line, separated by blanks
JoinWords(ws) ==
    IF ws = <<>> THEN <<>>
    ELSE IF Len(ws) = 1 THEN ws[1]
    ELSE ws[1] \o <<"SP">> \o JoinWords(Tail(ws))

w_dup == <<"d", "u", "p">>
w_drop == <<"d", "r", "o", "p">>
w_swap == <<"s", "w", "a", "p">>
w_over == <<"o", "v", "e", "r">>
w_rot == <<"r", "o", "t">>

\* lines of stack words
StackPrograms ==
    {[op |-> "words", words |-> ws] :
        ws \in {<<w_dup>>, <<w_drop>>, <<w_swap>>, <<w_over>>, <<w_rot>>,
                <<w_dup, w_drop>>, <<w_swap, w_swap>>}}

\* the conditions of a conditional and the bodies of its blocks
Conditions == {"true", "false", "1 < 2", "2 < 1"}

Bodies == {"7", "8", "drop", "dup", ""}

\* cond ? [ then ] and cond ? [ then ] [ else ]
CondPrograms ==
    {[op |-> "cond", cond |-> c, then |-> b1, else |-> b2] :
        c \in Conditions, b1 \in Bodies, b2 \in Bodies \cup {"absent"}}

\* the lists folded: every list of at most two of the elements, and 1 2 3
FoldElements == {1, 2, 3}

FoldLists ==
    UNION {[1..n -> FoldElements] : n \in 0..2} \cup {<<1, 2, 3>>}

FoldInits == {0, 7}

\* the bodies of the blocks folded with: ( acc item -- acc' )
FoldBodies == {"+", "-", "drop", "swap drop"}

\* L init [ body ] fold
FoldPrograms ==
    {[op |-> "fold", list |-> l, init |-> i, body |-> b] :
        l \in FoldLists, i \in FoldInits, b \in FoldBodies}

\* n [ body ] times: the empty body, a body that consumes the index and a
\* body that pushes a value
TimesCounts == 0..2

TimesBodies == {"", "drop", "7"}

TimesPrograms ==
    {[op |-> "times", n |-> n, body |-> b] : n \in TimesCounts, b \in TimesBodies}

EvalPrograms == StackPrograms \cup CondPrograms \cup FoldPrograms \cup TimesPrograms

\* a number below ten
Digit(n) == NatStr(n)

RECURSIVE Elements(_)
\* the elements of a list literal, each followed by a blank
Elements(l) == IF l = <<>> THEN <<>> ELSE Digit(l[1]) \o <<"SP">> \o Elements(Tail(l))

FoldBodySource(b) ==
    CASE b = "+" -> <<"+">>
      [] b = "-" -> <<"-">>
      [] b = "drop" -> w_drop
      [] b = "swap drop" -> w_swap \o <<"SP">> \o w_drop

ConditionSource(c) ==
    CASE c = "true" -> <<"t", "r", "u", "e">>
      [] c = "false" -> <<"f", "a", "l", "s", "e">>
      [] c = "1 < 2" -> <<"1", "SP", "<", "SP", "2">>
      [] c = "2 < 1" -> <<"2", "SP", "<", "SP", "1">>

\* [ body ]
BlockSource(b) ==
    CASE b = "7" -> <<"[", "SP", "7", "SP", "]">>
      [] b = "8" -> <<"[", "SP", "8", "SP", "]">>
      [] b = "drop" -> <<"[", "SP">> \o w_drop \o <<"SP", "]">>
      [] b = "dup" -> <<"[", "SP">> \o w_dup \o <<"SP", "]">>
      [] b = "" -> <<"[", "SP", "]">>

\* the line of a program
ProgramSource(prog) ==
    CASE prog.op = "words" -> JoinWords(prog.words)
      [] prog.op = "cond" ->
            ConditionSource(prog.cond) \o <<"SP", "?", "SP">> \o BlockSource(prog.then)
                \o (IF prog.else = "absent" THEN <<>>
                    ELSE <<"SP">> \o BlockSource(prog.else))
      [] prog.op = "fold" ->
            <<"[", "SP">> \o Elements(prog.list) \o <<"]", "SP">> \o Digit(prog.init)
                \o <<"SP", "[", "SP">> \o FoldBodySource(prog.body)
                \o <<"SP", "]", "SP", "f", "o", "l", "d">>
      [] prog.op = "times" ->
            Digit(prog.n) \o <<"SP">> \o BlockSource(prog.body)
                \o <<"SP", "t", "i", "m", "e", "s">>

repl_eval(prog) ==
    /\ pc = "eval"
    /\ vm' = VM_run(vm, ProgramSource(prog))
    /\ pc' = IF vm'.hang THEN "hung" ELSE "evaluated"
    /\ console' = ReplConsole(vm')
    /\ pre' = vm
    /\ input' = prog
    /\ UNCHANGED <<nlines, status, probe>>
    /\ UNCHANGED lexvars
    /\ UNCHANGED parsevars
    /\ UNCHANGED callvars

InitEval ==
    /\ LexIdle
    /\ ParseIdle
    /\ CallIdle
    /\ \E st \in Stacks : vm = [VM EXCEPT !.stack = st]
    /\ pre = VM
    /\ pc = "eval"
    /\ console = ""
    /\ input = NoInput
    /\ nlines = 0
    /\ status = -1
    /\ probe = [word |-> <<>>, position |-> "none"]

NextEval == \E prog \in EvalPrograms : repl_eval(prog)

SpecEval == InitEval /\ [][NextEval]_vars

\* the line of words ws has been run on a stack of at least n values
RanWords(ws, n) ==
    /\ pc = "evaluated"
    /\ input = [op |-> "words", words |-> ws]
    /\ Len(pre.stack) >= n

\* the stack st without its n top values
Below(st, n) == SubSeq(st, 1, Len(st) - n)

\* the n-th value of st from the top
FromTop(st, n) == st[Len(st) + 1 - n]

\* C12: on a stack with enough values dup, drop, swap, over and rot change
\* only the top values, as (a -- a a), (a -- ), (a b -- b a), (a b -- a b a)
\* and (a b c -- b c a), and leave the values below unchanged; dup drop and
\* swap swap leave the whole stack as it was.
C12_StackWords ==
    LET st == pre.stack
        a1 == FromTop(st, 1)
        a2 == FromTop(st, 2)
        a3 == FromTop(st, 3)
    IN  /\ RanWords(<<w_dup>>, 1) => Ok(vm) /\ vm.stack = Below(st, 1) \o <<a1, a1>>
        /\ RanWords(<<w_drop>>, 1) => Ok(vm) /\ vm.stack = Below(st, 1)
        /\ RanWords(<<w_swap>>, 2) => Ok(vm) /\ vm.stack = Below(st, 2) \o <<a1, a2>>
        /\ RanWords(<<w_over>>, 2) => Ok(vm) /\ vm.stack = Below(st, 2) \o <<a2, a1, a2>>
        /\ RanWords(<<w_rot>>, 3) => Ok(vm) /\ vm.stack = Below(st, 3) \o <<a2, a1, a3>>
        /\ RanWords(<<w_dup, w_drop>>, 1) => Ok(vm) /\ vm.stack = st
        /\ RanWords(<<w_swap, w_swap>>, 2) => Ok(vm) /\ vm.stack = st

\* rot has run on a stack of three different values above a fourth
C12_Witness ==
    /\ RanWords(<<w_rot>>, 4)
    /\ FromTop(pre.stack, 1) # FromTop(pre.stack, 2)
    /\ FromTop(pre.stack, 2) # FromTop(pre.stack, 3)
    /\ FromTop(pre.stack, 1) # FromTop(pre.stack, 3)
    /\ Ok(vm)

\* what the values of the conditions are
ConditionValue(c) == c \in {"true", "1 < 2"}

\* the body b has what it needs on the stack st
Enough(b, st) == b \in {"drop", "dup"} => st # <<>>

\* the stack st after the body b
Effect(b, st) ==
    CASE b = "7" -> Append(st, IntV(7))
      [] b = "8" -> Append(st, IntV(8))
      [] b = "drop" -> Below(st, 1)
      [] b = "dup" -> Append(st, FromTop(st, 1))
      [] OTHER -> st

\* the block a conditional chooses, "absent" when it chooses none
Chosen(prog) == IF ConditionValue(prog.cond) THEN prog.then ELSE prog.else

\* C13: at top level cond ? [then] [else] with a true or false cond runs
\* exactly one block, the then-block when cond is true and the else-block
\* when cond is false, and no block when cond is false and there is no
\* else-block; the stack afterwards is the stack before changed by the
\* block that ran only, and nothing else is pushed.
C13_ConditionalRunsOneBlock ==
    (pc = "evaluated" /\ input.op = "cond" /\ Enough(Chosen(input), pre.stack)) =>
        /\ Ok(vm)
        /\ vm.stack = Effect(Chosen(input), pre.stack)
        /\ vm.variables = pre.variables
        /\ Len(vm.hist.binds) = IF Chosen(input) = "absent" THEN 0 ELSE 1
        /\ \A k \in 1..Len(vm.hist.binds) : vm.hist.binds[k].stack0 = pre.stack

\* a false condition has run an else-block that differs from the then-block
C13_Witness ==
    /\ pc = "evaluated" /\ input.op = "cond"
    /\ input.cond = "2 < 1" /\ input.then = "7" /\ input.else = "drop"
    /\ Len(pre.stack) = 2
    /\ vm.stack = Below(pre.stack, 1)

(***************************************************************************)
(* Word definitions, in sessions of Spec.                                  *)
(***************************************************************************)
\* the session has run the line text: pre is the VM before, vm after
Executed(text) == pc = "repl" /\ input = [op |-> "execute", text |-> text]

\* the tokens of a line that is one definition, name: body <U+0965>
IsDefinition(toks) ==
    /\ Len(toks) >= 4
    /\ toks[1].type = "WORD" /\ toks[2].type = "COLON"
    /\ toks[Len(toks) - 1].type = "DEF_END"
    /\ \A i \in 3..Len(toks) - 2 : toks[i].type # "DEF_END"

\* the tokens toks hold a definition of name
Defines(toks, name) ==
    \E i \in 1..Len(toks) - 1 :
        toks[i].type = "WORD" /\ toks[i].value = name /\ toks[i + 1].type = "COLON"

\* a line that is one definition changes the entry of its name only
DefinitionFrame(toks) ==
    IsDefinition(toks) =>
        LET name == toks[1].value
        IN  /\ Ok(vm)
            /\ vm.stack = pre.stack
            /\ vm.variables = pre.variables
            /\ vm.printed = <<>>
            /\ DOMAIN vm.words = DOMAIN pre.words \cup {name}
            /\ \A n \in DOMAIN pre.words \ {name} : vm.words[n] = pre.words[n]
            /\ vm.words[name].t = "block"
            /\ vm.words[name].v.tokens = SubSeq(toks, 3, Len(toks) - 2)
            /\ vm.words[name].v.params = <<>>

\* an entry stays as it is unless the line defines its name
EntriesPersist(toks) ==
    \A n \in DOMAIN pre.words :
        /\ n \in DOMAIN vm.words
        /\ vm.words[n] # pre.words[n] => Defines(toks, n)

w_square == <<"s", "q", "u", "a", "r", "e">>

\* <U+0CEB> square
RunSquare == <<"U0CEB", "SP">> \o w_square

\* square is the word with the body dup * and nothing hides it or dup
SquareDefined(s) ==
    /\ w_square \in DOMAIN s.words
    /\ LET body == s.words[w_square].v.tokens
       IN  /\ Len(body) = 2
           /\ body[1].type = "WORD" /\ body[1].value = w_dup
           /\ body[2].type = "STAR"
    /\ DOMAIN s.variables \cap {w_square, w_dup} = {}

\* C14: a line name: body <U+0965> adds or overwrites the dictionary entry
\* of name, whose body is the tokens between the colon and the end mark, and
\* changes neither another entry nor the stack nor the variables; after
\* square: dup * <U+0965> the line <U+0CEB> square pushes 25 and leaves the
\* variables and the dictionary as they were; an entry stays in the
\* dictionary, unchanged, over every later line that does not define its
\* name.
C14_DefinitionFrame ==
    /\ (pc = "repl" /\ input.op = "execute") =>
          LET r == tokenize(input.text)
              toks == IF r.exc = "none" THEN r.tokens ELSE <<>>
          IN  DefinitionFrame(toks) /\ EntriesPersist(toks)
    /\ (pc = "repl" /\ input.op = "clear") => vm.words = pre.words
    /\ (Executed(RunSquare) /\ SquareDefined(pre)) =>
          /\ Ok(vm)
          /\ vm.stack = Append(pre.stack, IntV(25))
          /\ vm.variables = pre.variables
          /\ vm.words = pre.words

\* square has been defined and run
C14_Witness ==
    /\ Executed(RunSquare) /\ SquareDefined(pre)
    /\ vm.stack = <<IntV(25)>>

(***************************************************************************)
(* fold, in the evaluations of SpecEval.                                   *)
(***************************************************************************)
\* what a block body makes of the accumulator acc and the element item
Step(b, acc, item) ==
    CASE b = "+" -> acc + item
      [] b = "-" -> acc - item
      [] b = "drop" -> acc
      [] b = "swap drop" -> item

RECURSIVE Accumulated(_, _, _, _)
\* the accumulator after the first k elements of l
Accumulated(b, init, l, k) ==
    IF k = 0 THEN init ELSE Step(b, Accumulated(b, init, l, k - 1), l[k])

RECURSIVE SumOf(_)
SumOf(l) == IF l = <<>> THEN 0 ELSE l[1] + SumOf(Tail(l))

Left(b) == IF b = "7" THEN <<IntV(7)>> ELSE <<>>

\* C16: n B times runs B n times, the i-th run on the stack with the index
\* i on top, and without the index the stack afterwards is the stack before
\* changed by B only: unchanged for the empty block and for a block that
\* consumes the index, with one 7 for each run of [ 7 ]; the line does not
\* fail with a stack underflow.
C16_Times ==
    (pc = "evaluated" /\ input.op = "times") =>
        LET runs == vm.hist.binds
        IN  /\ Ok(vm)
            /\ vm.stack = pre.stack \o Repeat(Left(input.body), input.n)
            /\ Len(runs) = input.n
            /\ \A k \in 1..Len(runs) :
                   runs[k].stack0 =
                       pre.stack \o Repeat(Left(input.body), k - 1) \o <<IntV(k - 1)>>

(***************************************************************************)
(* parse(source) on the sources of expressions, bracket groups and         *)
(* statement sequences.  psource is what the source is made of.            *)
(***************************************************************************)
\* the spellings of the binary operators, by level
OrOps == kw_or

AndOps == kw_and

ComparisonOps ==
    {<<"=">>, <<"!", "=">>, <<"U2260">>, <<"<">>, <<">">>, <<"<", "=">>, <<"U2264">>,
     <<">", "=">>, <<"U2265">>}

AdditiveOps == {<<"+">>, <<"-">>}

MultiplicativeOps == {<<"*">>, <<"/">>, <<"%">>}

BinaryOps == OrOps \cup AndOps \cup ComparisonOps \cup AdditiveOps \cup MultiplicativeOps

UnaryOps == {<<"-">>} \cup kw_not

\* a op1 b op2 c, u a op b and a op u b, for the numbers a, b, c = 5, 3, 2
ExprInputs ==
    {[kind |-> "binary", op1 |-> op1, op2 |-> op2] : op1 \in BinaryOps, op2 \in BinaryOps}
    \cup {[kind |-> k, u |-> u, op |-> op] :
              k \in {"unary left", "unary right"}, u \in UnaryOps, op \in BinaryOps}

\* what stands in a bracket group: a number, the boolean keywords, a string,
\* a word, operators, a pipe, and nested groups that hold a word or an
\* operator
GroupItems ==
    {"1", "true", "false", "string", "word", "*", "<", "|", "[ word ]", "[ + ]"}

MaxGroup == 3

GroupInputs ==
    {[kind |-> "group", items |-> items] :
        items \in UNION {[1..n -> GroupItems] : n \in 0..MaxGroup}}

\* statements: three well-formed ones, an Error token before a dot, and
\* two statements the parser raises a ParseError for
StatementItems == {"2 .", "sq: dup", "x := 3 .", "@ .", "' .", "1 ? 2 ."}

MaxStatements == 3

StatementInputs ==
    {[kind |-> "statements", items |-> items] :
        items \in UNION {[1..n -> StatementItems] : n \in 1..MaxStatements}}

ParseInputs == ExprInputs \cup GroupInputs \cup StatementInputs

\* the text of an item
ItemSource(item) ==
    CASE item = "1" -> <<"U0CE7">>
      [] item = "true" -> <<"t", "r", "u", "e">>
      [] item = "false" -> <<"U0CB8", "U0CC1", "U0CB3", "U0CCD", "U0CB3", "U0CC1">>
      [] item = "string" -> <<"DQUOTE", "a", "DQUOTE">>
      [] item = "word" -> w_dup
      [] item = "*" -> <<"*">>
      [] item = "<" -> <<"<">>
      [] item = "|" -> <<"|">>
      [] item = "[ word ]" -> <<"[", "SP">> \o w_dup \o <<"SP", "]">>
      [] item = "[ + ]" -> <<"[", "SP", "+", "SP", "]">>
      [] item = "2 ." -> <<"U0CE8", "SP", ".">>
      [] item = "sq: dup" -> <<"s", "q", ":", "SP">> \o w_dup \o <<"SP", "U0965">>
      [] item = "x := 3 ." -> <<"x", "SP", ":", "=", "SP", "U0CE9", "SP", ".">>
      [] item = "@ ." -> <<"@", "SP", ".">>
      [] item = "' ." -> <<"'", "SP", ".">>
      [] item = "1 ? 2 ." -> <<"U0CE7", "SP", "?", "SP", "U0CE8", "SP", ".">>

RECURSIVE JoinItems(_)
\* the texts of items, each followed by a blank
JoinItems(items) ==
    IF items = <<>> THEN <<>>
    ELSE ItemSource(items[1]) \o <<"SP">> \o JoinItems(Tail(items))

\* the source parse() is given
ParseSource(in) ==
    CASE in.kind = "binary" ->
            JoinWords(<<<<"U0CEB">>, in.op1, <<"U0CE9">>, in.op2, <<"U0CE8">>>>)
      [] in.kind = "unary left" -> JoinWords(<<in.u, <<"U0CEB">>, in.op, <<"U0CE9">>>>)
      [] in.kind = "unary right" -> JoinWords(<<<<"U0CEB">>, in.op, in.u, <<"U0CE9">>>>)
      [] in.kind = "group" -> <<"[", "SP">> \o JoinItems(in.items) \o <<"]">>
      [] in.kind = "statements" -> JoinItems(in.items)

\* parser = Parser(tokenize(source)); parser.parse()
parse_source ==
    /\ parsepc = "start"
    /\ parser' = parse(ParseSource(psource))
    /\ parsepc' =
          CASE parser'.err.kind = "none" -> "parsed"
            [] parser'.err.kind = "Hang" -> "hung"
            [] OTHER -> "raised"
    /\ UNCHANGED psource
    /\ UNCHANGED vmvars
    /\ UNCHANGED lexvars
    /\ UNCHANGED callvars

InitParse ==
    /\ VmIdle
    /\ LexIdle
    /\ parser = Parser(<<>>)
    /\ psource \in ParseInputs
    /\ parsepc = "start"
    /\ CallIdle

NextParse == parse_source

SpecParse == InitParse /\ [][NextParse]_vars

\* parse() has returned, or raised, or will never return
Parsed == parsepc \in {"parsed", "raised", "hung"}

\* the level of a binary operator: the higher, the tighter it binds
Level(op) ==
    CASE op \in OrOps -> 1
      [] op \in AndOps -> 2
      [] op \in ComparisonOps -> 3
      [] op \in AdditiveOps -> 4
      [] op \in MultiplicativeOps -> 5

\* the name a binary operator has in the tree
OperatorName(op) ==
    CASE op = <<"U2260">> -> <<"!", "=">>
      [] op = <<"U2264">> -> <<"<", "=">>
      [] op = <<"U2265">> -> <<">", "=">>
      [] OTHER -> op

Five == NumberLit(IntV(5))

Three == NumberLit(IntV(3))

Two == NumberLit(IntV(2))

\* C17: the source 5 op1 3 op2 2 is one expression statement whose tree is
\* BinaryExpr(op1, 5, BinaryExpr(op2, 3, 2)) when op2 is of a higher level
\* than op1 and BinaryExpr(op2, BinaryExpr(op1, 5, 3), 2) when it is of the
\* same or of a lower level, the levels being or, and, comparison,
\* additive, multiplicative from the lowest; a unary operator binds tighter
\* than every binary one: u 5 op 3 is BinaryExpr(op, UnaryExpr(u, 5), 3) and
\* 5 op u 3 is BinaryExpr(op, 5, UnaryExpr(u, 3)).
C17_Precedence ==
    (Parsed /\ psource.kind \in {"binary", "unary left", "unary right"}) =>
        /\ parsepc = "parsed"
        /\ parser.errors = <<>>
        /\ parser.ret = <<ExprStmt(
              CASE psource.kind = "binary" ->
                    LET n1 == OperatorName(psource.op1)
                        n2 == OperatorName(psource.op2)
                    IN  IF Level(psource.op2) > Level(psource.op1)
                        THEN BinaryExpr(Five, n1, BinaryExpr(Three, n2, Two))
                        ELSE BinaryExpr(BinaryExpr(Five, n1, Three), n2, Two)
                [] psource.kind = "unary left" ->
                    BinaryExpr(UnaryExpr(psource.u, Five), OperatorName(psource.op), Three)
                [] psource.kind = "unary right" ->
                    BinaryExpr(Five, OperatorName(psource.op), UnaryExpr(psource.u, Three)))>>

\* 5 + 3 * 2 has been parsed
C17_Witness ==
    /\ parsepc = "parsed"
    /\ psource = [kind |-> "binary", op1 |-> <<"+">>, op2 |-> <<"*">>]
    /\ parser.ret = <<ExprStmt(BinaryExpr(Five, <<"+">>, BinaryExpr(Three, <<"*">>, Two)))>>

\* a word other than a boolean keyword, a pipe or an operator stands
\* directly in the bracket group
AtDepthOne(items) == \E i \in 1..Len(items) : items[i] \in {"word", "*", "<", "|"}

\* C18: a bracket group at primary position is a Block exactly when a word
\* other than the boolean keywords, a pipe or an operator token stands
\* directly in it, not in a nested group, and a ListLit otherwise.
C18_BlockOrList ==
    (Parsed /\ psource.kind = "group") =>
        /\ parsepc = "parsed"
        /\ Len(parser.ret) = 1
        /\ parser.ret[1].node = "ExprStmt"
        /\ parser.ret[1].expr.node =
              IF AtDepthOne(psource.items) THEN "Block" ELSE "ListLit"

\* the statement a well-formed item is
GoodNode(item) ==
    CASE item = "2 ." -> ExprStmt(Two)
      [] item = "sq: dup" -> WordDef(<<"s", "q">>, <<Word(w_dup)>>)
      [] item = "x := 3 ." -> VarAssign(<<"x">>, Three)

GoodItems == {"2 .", "sq: dup", "x := 3 ."}

RECURSIVE IsSubsequence(_, _)
\* the elements of a are in b, in the order of a
IsSubsequence(a, b) ==
    IF a = <<>> THEN TRUE
    ELSE IF b = <<>> THEN FALSE
    ELSE IF a[1] = b[1] THEN IsSubsequence(Tail(a), Tail(b))
    ELSE IsSubsequence(a, Tail(b))

RECURSIVE GoodNodes(_)
\* the statements of the well-formed items
GoodNodes(items) ==
    IF items = <<>> THEN <<>>
    ELSE IF items[1] \in GoodItems THEN <<GoodNode(items[1])>> \o GoodNodes(Tail(items))
    ELSE GoodNodes(Tail(items))

\* C19: parse() returns for a token stream that holds Error tokens, with a
\* ParseError in its error list for every Error token, and every
\* well-formed statement of the source is in the program, whatever
\* erroneous statements (each ended by its dot) stand before it.
C19_ErrorsRecordedAndSkipped ==
    (Parsed /\ psource.kind = "statements") =>
        /\ parsepc = "parsed"
        /\ \A i \in 1..Len(parser.tokens) :
               parser.tokens[i].type = "ERROR" =>
                   \E k \in 1..Len(parser.errors) : parser.errors[k].at = i - 1
        /\ IsSubsequence(GoodNodes(psource.items), parser.ret)

(***************************************************************************)
(* Where a word starts: the lexer is given one character of every class of *)
(* the classifier, alone and before a letter.                              *)
(***************************************************************************)
\* the characters a source starts with
StartChars ==
    AsciiLetters \cup AsciiDigits \cup KANNADA_DIGITS \cup LETTERS \cup MATRAS
        \cup {HALANT, ANUSVARA, VISARGA, "_", "-"} \cup OtherLetters \cup OtherDigits

StartSources == {<<ch>> : ch \in StartChars} \cup {<<ch, "a">> : ch \in StartChars}

InitStart ==
    /\ \E source \in StartSources : lexer = Lexer(source)
    /\ tokens = <<>>
    /\ lexpc = "scan"
    /\ VmIdle
    /\ ParseIdle
    /\ CallIdle

NextStart == scan_all_step

SpecStart == InitStart /\ [][NextStart]_vars

\* Kannada letters, ASCII letters and the underscore
WordStarts == LETTERS \cup AsciiLetters \cup {"_"}

\* C20: the first token of a source is a Word exactly when the source
\* starts with a Kannada letter, an ASCII letter or an underscore, and
\* is_valid_identifier_start is true of exactly these characters.
C20_WordStart ==
    tokens # <<>> =>
        LET ch == lexer.source[1]
        IN  /\ tokens[1].type = "WORD" <=> ch \in WordStarts
            /\ is_valid_identifier_start(ch) <=> ch \in WordStarts

(***************************************************************************)
(* normalize_number, src/src/unicode/kannada.py, called on short texts of  *)
(* digits, dots and other characters.                                      *)
(***************************************************************************)
\* [exc, val]: the value returned, None where the code returns None, and
\* the ValueError int(ch) raises for a digit that is no decimal digit
normalize_number(text) ==
    LET RECURSIVE loop(_, _)
        loop(i, result) ==
            IF i > Len(text) THEN [exc |-> "none", val |-> IntV(result)]
            ELSE LET ch == text[i]
                     value == kannada_digit_value(ch)
                 IN  IF value # NoneV THEN loop(i + 1, result * 10 + value.v)
                     ELSE IF isdigit(ch)
                     THEN IF IsDecimal(ch) THEN loop(i + 1, result * 10 + DecimalValue(ch))
                          ELSE [exc |-> "ValueError", val |-> NoneV]
                     ELSE [exc |-> "none", val |-> NoneV]
    IN  IF text = <<>> THEN [exc |-> "none", val |-> NoneV] ELSE loop(1, 0)

MaxNumLen == 3

NumAlphabet == {"1", "2", "U0CE7", "U0CE9", ".", "U00B2", "a"}

NumberTexts == UNION {[1..n -> NumAlphabet] : n \in 0..MaxNumLen}

call_normalize_number ==
    /\ libcall.fn = "normalize_number"
    /\ libcall.pc = "call"
    /\ LET r == normalize_number(libcall.args[1])
       IN  libcall' = [libcall EXCEPT !.pc = IF r.exc = "none" THEN "returned" ELSE "raised",
                                      !.ret = r.val]
    /\ UNCHANGED vmvars
    /\ UNCHANGED lexvars
    /\ UNCHANGED parsevars

InitNumber ==
    /\ \E text \in NumberTexts :
           libcall = [fn |-> "normalize_number", args |-> <<text>>, pc |-> "call", ret |-> NoneV]
    /\ VmIdle
    /\ LexIdle
    /\ ParseIdle

NextNumber == call_normalize_number

SpecNumber == InitNumber /\ [][NextNumber]_vars

\* the digit a Kannada or ASCII digit character stands for
DigitOf(ch) ==
    CASE ch \in {"1", "U0CE7"} -> 1
      [] ch = "2" -> 2
      [] ch = "U0CE9" -> 3

NumDigits == {"1", "2", "U0CE7", "U0CE9"}

AllDigits(text) == text # <<>> /\ \A i \in 1..Len(text) : text[i] \in NumDigits

RECURSIVE Denoted(_)
\* the number a text of digits denotes in base ten
Denoted(text) ==
    IF Len(text) = 1 THEN DigitOf(text[1])
    ELSE Denoted(SubSeq(text, 1, Len(text) - 1)) * 10 + DigitOf(text[Len(text)])

\* C21: normalize_number returns, for a non-empty text of Kannada and ASCII
\* digits, the integer the text denotes in base ten, and for digits, one dot
\* and digits the decimal value the text denotes, never None.
C21_NormalizeNumber ==
    (libcall.fn = "normalize_number" /\ libcall.pc # "call") =>
        LET text == libcall.args[1]
        IN  /\ AllDigits(text) =>
                  libcall.pc = "returned" /\ libcall.ret = IntV(Denoted(text))
            /\ \A d \in 2..(Len(text) - 1) :
                  (/\ text[d] = "."
                   /\ AllDigits(SubSeq(text, 1, d - 1))
                   /\ AllDigits(SubSeq(text, d + 1, Len(text)))) =>
                      /\ libcall.pc = "returned"
                      /\ libcall.ret =
                            FloatV(Denoted(SubSeq(text, 1, d - 1) \o SubSeq(text, d + 1, Len(text))),
                                   Pow10(Len(text) - d))

(***************************************************************************)
(* The C generator, src/src/codegen/c_generator.py: the names it gives     *)
(* user words.                                                             *)
(***************************************************************************)
\* f'{ord(ch):x}' for the word characters str.isalnum() is false of
Hex(ch) ==
    CASE ch = "-" -> <<"2", "d">>
      [] ch = "U0CBE" -> <<"c", "b", "e">>
      [] ch = "U0CCD" -> <<"c", "c", "d">>

CGenerator_mangle_name(name) ==
    LET RECURSIVE loop(_, _)
        loop(i, result) ==
            IF i > Len(name) THEN result
            ELSE LET ch == name[i]
                 IN  IF isalnum(ch) \/ ch = "_" THEN loop(i + 1, result \o <<ch>>)
                     ELSE loop(i + 1, result \o <<"_">> \o Hex(ch) \o <<"_">>)
    IN  <<"w", "o", "r", "d", "_">> \o loop(1, <<>>)

MaxNameLen == 2

\* an ASCII letter and digit, the underscore, the hyphen, a Kannada consonant,
\* a matra and the halant
NameAlphabet == {"a", "2", "_", "-", "U0C95", "U0CBE", "U0CCD"}

\* the names the lexer gives a Word token
IsWordName(name) ==
    /\ name # <<>>
    /\ Lexer_is_word_start(name[1])
    /\ \A i \in 2..Len(name) : Lexer_is_word_char(name[i])

\* short names, and ASCII names that spell an escape
WordNames ==
    {name \in UNION {[1..n -> NameAlphabet] : n \in 1..MaxNameLen} : IsWordName(name)}
        \cup {<<"a", "_", "2", "d", "_">>, <<"a", "_", "2", "d", "_", "a">>,
              <<"_", "c", "b", "e", "_">>}

call_mangle_name ==
    /\ libcall.fn = "_mangle_name"
    /\ libcall.pc = "call"
    /\ libcall' = [libcall EXCEPT !.pc = "returned",
                                  !.ret = <<CGenerator_mangle_name(libcall.args[1]),
                                            CGenerator_mangle_name(libcall.args[2])>>]
    /\ UNCHANGED vmvars
    /\ UNCHANGED lexvars
    /\ UNCHANGED parsevars

InitMangle ==
    /\ \E name1 \in WordNames, name2 \in WordNames :
           libcall = [fn |-> "_mangle_name", args |-> <<name1, name2>>, pc |-> "call", ret |-> NoneV]
    /\ VmIdle
    /\ LexIdle
    /\ ParseIdle

NextMangle == call_mangle_name

SpecMangle == InitMangle /\ [][NextMangle]_vars

\* the characters of a C identifier
IdentifierChars == AsciiLetters \cup AsciiDigits \cup {"_"}

\* C22: the C names of two distinct word names are distinct, and a C name
\* is made of ASCII letters, digits and underscores only, the ASCII
\* letters, digits and underscores of the word name being kept.
C22_MangleInjective ==
    (libcall.fn = "_mangle_name" /\ libcall.pc = "returned") =>
        /\ libcall.args[1] # libcall.args[2] => libcall.ret[1] # libcall.ret[2]
        /\ \A k \in 1..2 :
              /\ \A i \in 1..Len(libcall.ret[k]) : libcall.ret[k][i] \in IdentifierChars
              /\ (\A i \in 1..Len(libcall.args[k]) : libcall.args[k][i] \in IdentifierChars) =>
                     libcall.ret[k] = <<"w", "o", "r", "d", "_">> \o libcall.args[k]

(***************************************************************************)
(* The C generator lowering a Word node.  The generator object is          *)
(* [variables, word_defs]: the names visit_VarAssign has entered and the   *)
(* names of the WordDef statements generate() has collected.               *)
(***************************************************************************)
\* the table `builtins` of visit_Word: name |-> what is emitted for it
visit_Word_builtins ==
    {
     <<<<"+">>, "add_op">>,
     <<<<"-">>, "sub_op">>,
     <<<<"*">>, "mul_op">>,
     <<<<"/">>, "div_op">>,
     <<<<"%">>, "mod_op">>,
     <<<<"U0C95", "U0CC2", "U0CA1", "U0CC1">>, "add_op">>,
     <<<<"U0C95", "U0CC2", "U0CA1", "U0CBF", "U0CB8", "U0CC1">>, "add_op">>,
     <<<<"U0C95", "U0CB3", "U0CC6">>, "sub_op">>,
     <<<<"U0C97", "U0CC1", "U0CA3", "U0CBF", "U0CB8", "U0CC1">>, "mul_op">>,
     <<<<"U0CAD", "U0CBE", "U0C97", "U0CBF", "U0CB8", "U0CC1">>, "div_op">>,
     <<<<"<">>, "lt_op">>,
     <<<<">">>, "gt_op">>,
     <<<<"=">>, "eq_op">>,
     <<<<"!", "=">>, "neq_op">>,
     <<<<"<", "=">>, "lte_op">>,
     <<<<">", "=">>, "gte_op">>,
     <<<<"U0C95", "U0CBF", "U0CB0", "U0CBF", "U0CA6", "U0CC1">>, "lt_op">>,
     <<<<"U0CB9", "U0CBF", "U0CB0", "U0CBF", "U0CA6", "U0CC1">>, "gt_op">>,
     <<<<"U0CB8", "U0CAE">>, "eq_op">>,
     <<<<"a", "n", "d">>, "and_op">>,
     <<<<"o", "r">>, "or_op">>,
     <<<<"n", "o", "t">>, "not_op">>,
     <<<<"U0CAE", "U0CA4", "U0CCD", "U0CA4", "U0CC1">>, "and_op">>,
     <<<<"U0C85", "U0CA5", "U0CB5", "U0CBE">>, "or_op">>,
     <<<<"U0C85", "U0CB2", "U0CCD", "U0CB2">>, "not_op">>,
     <<<<"d", "u", "p">>, "dup_op">>,
     <<<<"d", "r", "o", "p">>, "drop_op">>,
     <<<<"s", "w", "a", "p">>, "swap_op">>,
     <<<<"U0CA8", "U0C95", "U0CB2", "U0CC1">>, "dup_op">>,
     <<<<"U0CAC", "U0CBF", "U0CA1", "U0CC1">>, "drop_op">>,
     <<<<"U0C85", "U0CA6", "U0CB2", "U0CC1", "U0CAC", "U0CA6", "U0CB2", "U0CC1">>, "swap_op">>,
     <<<<"p", "r", "i", "n", "t">>, "print_op">>,
     <<<<"U0CAE", "U0CC1", "U0CA6", "U0CCD", "U0CB0", "U0CBF", "U0CB8", "U0CC1">>, "print_op">>,
     <<<<"t", "r", "u", "e">>, "push_bool(true)">>,
     <<<<"f", "a", "l", "s", "e">>, "push_bool(false)">>,
     <<<<"U0CA8", "U0CBF", "U0C9C">>, "push_bool(true)">>,
     <<<<"U0CB8", "U0CC1", "U0CB3", "U0CCD", "U0CB3", "U0CC1">>, "push_bool(false)">>,
     <<<<"U0CB8", "U0CB0", "U0CBF">>, "push_bool(true)">>,
     <<<<"U0CAC", "U0CC7", "U0CB8">>, "push_bool(false)">>
    }

\* the line visit_Word emits: [emit, text]
CGenerator_visit_Word(gen, name) ==
    IF name \in gen.variables
    THEN [emit |-> "variable", text |-> CGenerator_mangle_name(name)]
    ELSE IF name \in gen.word_defs
    THEN [emit |-> "user word call", text |-> CGenerator_mangle_name(name)]
    ELSE IF \E e \in visit_Word_builtins : e[1] = name
    THEN [emit |-> "built-in op", text |-> (CHOOSE e \in visit_Word_builtins : e[1] = name)[2]]
    ELSE [emit |-> "unknown word", text |-> name]

\* built-in names, a name of a user word only, a variable name and a name
\* nobody defines
VisitNames == {w_dup, w_swap, <<"+">>, w_square, <<"x">>, <<"y">>}

DefinableNames == {w_dup, w_swap, w_square, <<"x">>}

Generators ==
    {[variables |-> vs, word_defs |-> ws] : vs \in SUBSET DefinableNames, ws \in SUBSET DefinableNames}

call_visit_Word ==
    /\ libcall.fn = "visit_Word"
    /\ libcall.pc = "call"
    /\ libcall' = [libcall EXCEPT !.pc = "returned",
                                  !.ret = CGenerator_visit_Word(libcall.args[1], libcall.args[2])]
    /\ UNCHANGED vmvars
    /\ UNCHANGED lexvars
    /\ UNCHANGED parsevars

InitVisit ==
    /\ \E gen \in Generators, name \in VisitNames :
           libcall = [fn |-> "visit_Word", args |-> <<gen, name>>, pc |-> "call", ret |-> NoneV]
    /\ VmIdle
    /\ LexIdle
    /\ ParseIdle

NextVisit == call_visit_Word

SpecVisit == InitVisit /\ [][NextVisit]_vars

\* the names the interpreter has a built-in for
IsBuiltinName(name) == \E e \in visit_Word_builtins : e[1] = name

\* C23: visit_Word emits the variable for a name that is a variable, else
\* the built-in op call for a name that is a built-in, else the call of the
\* user word for a name that is a user word: a name that is a built-in and
\* a user word gets the built-in op call, as in the interpreter.
C23_WordResolution ==
    (libcall.fn = "visit_Word" /\ libcall.pc = "returned") =>
        LET gen == libcall.args[1]
            name == libcall.args[2]
        IN  libcall.ret.emit =
                IF name \in gen.variables THEN "variable"
                ELSE IF IsBuiltinName(name) THEN "built-in op"
                ELSE IF name \in gen.word_defs THEN "user word call"
                ELSE "unknown word"

(***************************************************************************)
(* What a failed word leaves of the stack.                                 *)
(***************************************************************************)
\* C29: when the word or operator token of the probe "true ? [ w ]" ends
\* with stack underflow, the stack afterwards is the stack the word found.
C29_UnderflowKeepsStack ==
    (pc = "probed" /\ probe.position = "block" /\ vm.hist.underflow) =>
        vm.stack = pre.stack

(***************************************************************************)
(* One line run in a session that has a few values on the stack and, or    *)
(* not, the variable x: lines that start with a token no rule consumes,    *)
(* infix and/or of two booleans, bracket groups inside word bodies and     *)
(* blocks, bracket groups at primary position, and blocks with a           *)
(* parameter whose body fails.                                             *)
(***************************************************************************)
RunStacks == {<<>>, <<IntV(1)>>, <<IntV(1), IntV(2)>>}

RunVariables == {EmptyDict, DictSet(EmptyDict, <<"x">>, IntV(5))}

\* ] } DefEnd : | and a character the lexer gives an Error token for
StrayTokens == {<<"]">>, <<"}">>, <<"U0965">>, <<":">>, <<"|">>, <<"@">>}

StrayPrograms ==
    {[op |-> "stray", token |-> t, rest |-> r] :
        t \in StrayTokens, r \in {<<>>, <<<<"1">>>>, <<<<".">>, <<"1">>>>}}

w_true == <<"t", "r", "u", "e">>

w_false == <<"f", "a", "l", "s", "e">>

LogicPrograms ==
    {[op |-> "logic", a |-> a, connective |-> c, b |-> b] :
        a \in {w_true, w_false}, c \in kw_or \cup kw_and, b \in {w_true, w_false}}

\* the bodies: a bracket group alone, a group and do, a group and map
NestedBodies == {"[ 7 ]", "[ 7 ] do", "[ dup * ] map"}

NestedPrograms ==
    {[op |-> "nested", form |-> f, body |-> b] : f \in {"word", "block"}, b \in NestedBodies}

MaxRunGroup == 2

RunGroupItems == {"1", "true", "word", "*", "|", "y"}

RunGroupPrograms ==
    {[op |-> "group", place |-> p, items |-> items] :
        p \in {"statement", "assignment"},
        items \in UNION {[1..n -> RunGroupItems] : n \in 0..MaxRunGroup}}

\* bodies of [ x | body ]: one that ends normally and three that fail
ParamBodies == {<<<<"x">>>>, <<<<"y">>>>, <<w_drop, w_drop, w_drop>>, <<<<"x">>, <<"+">>, <<"+">>, <<"+">>>>}

ParamPrograms == {[op |-> "params", body |-> b] : b \in ParamBodies}

RunPrograms ==
    StrayPrograms \cup LogicPrograms \cup NestedPrograms \cup RunGroupPrograms \cup ParamPrograms

NestedBodySource(b) ==
    CASE b = "[ 7 ]" -> <<<<"[">>, <<"7">>, <<"]">>>>
      [] b = "[ 7 ] do" -> <<<<"[">>, <<"7">>, <<"]">>, <<"d", "o">>>>
      [] b = "[ dup * ] map" -> <<<<"[">>, w_dup, <<"*">>, <<"]">>, <<"m", "a", "p">>>>

RunGroupItemSource(item) == IF item = "y" THEN <<"y">> ELSE ItemSource(item)

RunGroupSource(items) ==
    JoinWords(<<<<"[">>>> \o [i \in 1..Len(items) |-> RunGroupItemSource(items[i])] \o <<<<"]">>>>)

\* the line typed
RunSource(prog) ==
    CASE prog.op = "stray" -> JoinWords(<<prog.token>> \o prog.rest)
      [] prog.op = "logic" -> JoinWords(<<prog.a, prog.connective, prog.b>>)
      \* w: body DefEnd [ 1 2 ] w
      [] prog.op = "nested" /\ prog.form = "word" ->
            JoinWords(<<<<"w", ":">>>> \o NestedBodySource(prog.body)
                      \o <<<<"U0965">>, <<"[">>, <<"1">>, <<"2">>, <<"]">>, <<"w">>>>)
      \* [ 1 2 ] . true ? [ body ]
      [] prog.op = "nested" /\ prog.form = "block" ->
            JoinWords(<<<<"[">>, <<"1">>, <<"2">>, <<"]">>, <<".">>, w_true, <<"?">>, <<"[">>>>
                      \o NestedBodySource(prog.body) \o <<<<"]">>>>)
      [] prog.op = "group" /\ prog.place = "statement" -> RunGroupSource(prog.items)
      [] prog.op = "group" /\ prog.place = "assignment" ->
            <<"z", "SP", ":", "=", "SP">> \o RunGroupSource(prog.items)
      \* 9 [ x | body ] do
      [] prog.op = "params" ->
            JoinWords(<<<<"9">>, <<"[">>, <<"x">>, <<"|">>>> \o prog.body \o <<<<"]">>, <<"d", "o">>>>)

repl_run(prog) ==
    /\ pc = "run"
    /\ vm' = VM_run(vm, RunSource(prog))
    /\ pc' = IF vm'.hang THEN "hung" ELSE "ran"
    /\ console' = ReplConsole(vm')
    /\ pre' = vm
    /\ input' = prog
    /\ UNCHANGED <<nlines, status, probe>>
    /\ UNCHANGED lexvars
    /\ UNCHANGED parsevars
    /\ UNCHANGED callvars

InitRun ==
    /\ LexIdle
    /\ ParseIdle
    /\ CallIdle
    /\ \E st \in RunStacks, vs \in RunVariables : vm = [VM EXCEPT !.stack = st, !.variables = vs]
    /\ pre = VM
    /\ pc = "run"
    /\ console = ""
    /\ input = NoInput
    /\ nlines = 0
    /\ status = -1
    /\ probe = [word |-> <<>>, position |-> "none"]

NextRun == \E prog \in RunPrograms : repl_run(prog)

SpecRun == InitRun /\ [][NextRun]_vars

(***************************************************************************)
(* C24.  run, src/src/vm/vm.py lines 58-66: the loop of _run_toplevel      *)
(* calls _toplevel_statement until the position is at EOF.  The postfix    *)
(* loop of _expression_and_actions (129-169) leaves on a token it has no   *)
(* rule for without advancing, and _parse_primary (263-292) returns None   *)
(* on it without consuming it.                                             *)
(***************************************************************************)

\* C24: the run of a line returns: every top-level statement at a position
\* before EOF raises an error or moves the position forward by at least
\* one token, also when the statement starts with a token no rule consumes
\* (a stray "]", "}", the definition end, ":", "|" or an Error token)
C24_RunTerminates ==
    (pc \in {"ran", "hung"} /\ input.op = "stray") => ~vm.hang

(***************************************************************************)
(* C26.  _parse_or and _parse_and, src/src/vm/vm.py lines 196-208: the     *)
(* right operand is the right side of Python's "or" / "and", so it is      *)
(* parsed only when the left operand does not decide the result.           *)
(***************************************************************************)

\* the logical or / and of the two operands of a logic program
LogicValue(prog) ==
    IF prog.connective \in kw_or
    THEN prog.a = w_true \/ prog.b = w_true
    ELSE prog.a = w_true /\ prog.b = w_true

\* C26: at top level "a or b" and "a and b" with boolean operands push the
\* one value a or b (a and b) and consume the tokens of both operands for
\* every combination of truth values: nothing of b is executed afterwards
\* as a postfix action
C26_InfixLogic ==
    (pc \in {"ran", "hung"} /\ input.op = "logic") =>
        /\ pc = "ran"
        /\ vm.err.kind = "none"
        /\ vm.stack = pre.stack \o <<BoolV(LogicValue(input))>>

(***************************************************************************)
(* C27.  _execute_token, src/src/vm/vm.py lines 441-506, is what the body  *)
(* of a user word (_execute_word) and a block (_run_block) are run with:   *)
(* it has a rule for LBRACE but none for LBRACKET and RBRACKET, so the     *)
(* brackets of a nested group fall through every branch and the tokens     *)
(* between them are executed one by one.                                   *)
(***************************************************************************)

\* the list the nested programs push before the body runs
NestedList == ListV(<<IntV(1), IntV(2)>>)

\* C27: a nested bracket group in the body of a user word or of a block is
\* pushed as one Block and none of its tokens runs before a built-in runs
\* that Block: the body "[ 7 ]" leaves a Block on the list, "[ 7 ] do"
\* leaves 7 on it, and "[ dup * ] map" maps the list to its squares
C27_NestedGroup ==
    (pc \in {"ran", "hung"} /\ input.op = "nested") =>
        /\ pc = "ran"
        /\ vm.err.kind = "none"
        /\ CASE input.body = "[ 7 ]" ->
                  /\ Len(vm.stack) = Len(pre.stack) + 2
                  /\ SubSeq(vm.stack, 1, Len(pre.stack) + 1) = Append(pre.stack, NestedList)
                  /\ vm.stack[Len(vm.stack)].t = "block"
             [] input.body = "[ 7 ] do" ->
                  vm.stack = pre.stack \o <<NestedList, IntV(7)>>
             [] input.body = "[ dup * ] map" ->
                  vm.stack = Append(pre.stack, ListV(<<IntV(1), IntV(4)>>))

(***************************************************************************)
(* C28.  _parse_list_or_block, src/src/vm/vm.py lines 294-337, against     *)
(* _block_or_list, src/src/parser/parser.py lines 470-512.                 *)
(***************************************************************************)

\* what the parser makes of the group of a group program: "Block" or
\* "ListLit"
ParserGroupNode(prog) ==
    LET stmt == parse(RunSource(prog)).ret[1]
    IN  IF stmt.node = "VarAssign" THEN stmt.value.node ELSE stmt.expr.node

\* the value the interpreter made of the group: the top of the stack, or
\* the value of z
VMGroupValue(prog, s) ==
    IF prog.place = "assignment" THEN s.variables[<<"z">>] ELSE s.stack[Len(s.stack)]

HostErrors == {"TypeError", "AttributeError", "ValueError", "IndexError", "KeyError",
               "ZeroDivisionError", "RecursionError"}

\* C28: a bracket group at the start of a top-level statement or on the
\* right of an assignment is a Block for the interpreter exactly when it
\* is a Block for the parser and a list exactly when the parser yields
\* ListLit, and evaluating it raises no host error
C28_SameClassification ==
    (pc \in {"ran", "hung"} /\ input.op = "group") =>
        /\ pc = "ran"
        /\ vm.err.kind \notin HostErrors
        /\ vm.err.kind = "none" =>
              /\ VMGroupValue(input, vm).t = "block" <=> ParserGroupNode(input) = "Block"
              /\ VMGroupValue(input, vm).t = "list" <=> ParserGroupNode(input) = "ListLit"

(***************************************************************************)
(* C30.  _run_block, src/src/vm/vm.py lines 418-439: the parameters are    *)
(* bound in self.variables, the body is executed, the saved values are     *)
(* restored; the restore is not in a finally clause.  repl, src/src/repl.py*)
(* lines 63-72, catches the error and reads the next line with the same VM.*)
(***************************************************************************)

\* C30: when the body of a block with parameters raises, the variables the
\* next line of the session sees are the variables from before the block
\* was run: the parameters of the failed block are not left bound
C30_ParamsRestoredOnError ==
    (pc \in {"ran", "hung"} /\ input.op = "params" /\ vm.err.kind # "none") =>
        vm.variables = pre.variables

(***************************************************************************)
(* C25.  parse, src/src/parser/parser.py lines 59-72, loops until the      *)
(* position is at EOF; _primary (391-414) returns Word('') for a token it  *)
(* does not accept and does not advance over it, and _expr_stmt (212-246)  *)
(* leaves its postfix loop on that token without consuming it.             *)
(***************************************************************************)

\* C25: parse() returns on every token sequence: every round of the
\* statement loop of parse and of the element loop of _list_body consumes
\* a token or leaves the loop, also at a token _primary does not accept
C25_ParseTerminates ==
    Parsed => parsepc # "hung"

====
